---- MODULE Spec2Model ----
(***************************************************************************)
(* The C analysis pipeline of this repository: CLexer (lexer/c_lexer.py),  *)
(* CParser (parser/c_parser.py), ControlFlowGraph (flowchart/cfg_nodes.py) *)
(* and CFGGenerator (flowchart/cfg_generator.py).                          *)
(*                                                                         *)
(* Source text is a sequence of one-character strings.  Cursor positions   *)
(* (lexpos, current_token_index) are 0-based as in the code; At and TokAt  *)
(* do the index shift.  Python's None is the record None / the string      *)
(* "None" where a value of another shape is expected.                      *)
(*                                                                         *)
(* The scanner follows ply.lex, which the lexer is built with: characters  *)
(* of t_ignore are skipped, then the rules are tried in the order of the   *)
(* master pattern (function rules in definition order, then string rules   *)
(* by decreasing pattern length) and the first that matches wins; lineno   *)
(* is not reset by input().  The isinstance dispatch of _process_ast_node  *)
(* is taken on the class of the node: the parser and the generator are     *)
(* assumed to import one and the same ast_nodes module.                    *)
(***************************************************************************)
EXTENDS Naturals, Integers, Sequences, FiniteSets, TLC

VARIABLES
    lexer,      \* SpecLex: the CLexer instance under test
    lexpc,      \* SpecLex: "idle" | "scan" | "done" | "failed" (position inside tokenize)
    lexcalls,   \* SpecLex: number of tokenize calls started on the instance
    lexlast,    \* SpecLex: what the last scanner step did (kind, characters consumed)
    lexlog,     \* SpecLex: the token lists returned so far, one per finished call
    pstate,     \* SpecParse: the parse in progress on the CParser instance under test
    pcalls,     \* SpecParse: number of parse calls started on the instance
    plast,      \* SpecParse: the loop iteration just finished and the tokens it consumed
    cfg,        \* SpecGraph: the ControlFlowGraph under test
    cfgcreated, \* SpecGraph: number of create_node calls made on it by the client
    cfgops,     \* SpecGraph: number of calls made on it by the client
    generator,  \* Spec: the CFGGenerator instance under test
    genpc,      \* Spec: "idle" | "returned" | "hung"
    gencalls,   \* Spec: number of generate_cfg calls made
    genfirst,   \* Spec: source and result of the first generate_cfg call
    genlast     \* Spec: source and result of the last generate_cfg call

lexvars == <<lexer, lexpc, lexcalls, lexlast, lexlog>>
parsevars == <<pstate, pcalls, plast>>
graphvars == <<cfg, cfgcreated, cfgops>>
genvars == <<generator, genpc, gencalls, genfirst, genlast>>
vars == <<lexvars, parsevars, graphvars, genvars>>

(***************************************************************************)
(* Characters                                                              *)
(***************************************************************************)
Lower == {"a","b","c","d","e","f","g","h","i","j","k","l","m",
          "n","o","p","q","r","s","t","u","v","w","x","y","z"}
Upper == {"A","B","C","D","E","F","G","H","I","J","K","L","M",
          "N","O","P","Q","R","S","T","U","V","W","X","Y","Z"}
Digit == {"0","1","2","3","4","5","6","7","8","9"}
IdentStart == Lower \cup Upper \cup {"_"}
IdentChar == IdentStart \cup Digit
NoChar == ""

Max(a, b) == IF a >= b THEN a ELSE b

\* s[p] of the code, p 0-based; NoChar past the end (a regex never matches there)
At(s, p) == IF p >= 0 /\ p < Len(s) THEN s[p + 1] ELSE NoChar

\* s[p:q] of the code
Slice(s, p, q) == SubSeq(s, p + 1, q)

\* the end of the longest run of characters of class C that starts at p
RunEnd(s, p, C) ==
    CHOOSE q \in p..Len(s) : At(s, q) \notin C /\ \A k \in p..(q - 1) : At(s, k) \in C

DigitVal == ("0" :> 0) @@ ("1" :> 1) @@ ("2" :> 2) @@ ("3" :> 3) @@ ("4" :> 4) @@
            ("5" :> 5) @@ ("6" :> 6) @@ ("7" :> 7) @@ ("8" :> 8) @@ ("9" :> 9)
DigitChar == <<"0","1","2","3","4","5","6","7","8","9">>

\* int(t.value) on a run of decimal digits
RECURSIVE StrToInt(_)
StrToInt(ds) ==
    IF ds = <<>> THEN 0
    ELSE 10 * StrToInt(SubSeq(ds, 1, Len(ds) - 1)) + DigitVal[ds[Len(ds)]]

\* str(n) of a non-negative int
RECURSIVE IntToStr(_)
IntToStr(n) ==
    IF n < 10 THEN <<DigitChar[n + 1]>>
    ELSE IntToStr(n \div 10) \o <<DigitChar[(n % 10) + 1]>>

\* value.rstrip('fF')
RECURSIVE rstrip_fF(_)
rstrip_fF(v) ==
    IF v # <<>> /\ v[Len(v)] \in {"f", "F"} THEN rstrip_fF(SubSeq(v, 1, Len(v) - 1)) ELSE v

(***************************************************************************)
(* CLexer: the rule tables                                                 *)
(***************************************************************************)
reserved ==
    (<<"a", "u", "t", "o">> :> "AUTO") @@
    (<<"b", "r", "e", "a", "k">> :> "BREAK") @@
    (<<"c", "a", "s", "e">> :> "CASE") @@
    (<<"c", "h", "a", "r">> :> "CHAR") @@
    (<<"c", "o", "n", "s", "t">> :> "CONST") @@
    (<<"c", "o", "n", "t", "i", "n", "u", "e">> :> "CONTINUE") @@
    (<<"d", "e", "f", "a", "u", "l", "t">> :> "DEFAULT") @@
    (<<"d", "o">> :> "DO") @@
    (<<"d", "o", "u", "b", "l", "e">> :> "DOUBLE") @@
    (<<"e", "l", "s", "e">> :> "ELSE") @@
    (<<"e", "n", "u", "m">> :> "ENUM") @@
    (<<"e", "x", "t", "e", "r", "n">> :> "EXTERN") @@
    (<<"f", "l", "o", "a", "t">> :> "FLOAT") @@
    (<<"f", "o", "r">> :> "FOR") @@
    (<<"g", "o", "t", "o">> :> "GOTO") @@
    (<<"i", "f">> :> "IF") @@
    (<<"i", "n", "t">> :> "INT") @@
    (<<"l", "o", "n", "g">> :> "LONG") @@
    (<<"r", "e", "g", "i", "s", "t", "e", "r">> :> "REGISTER") @@
    (<<"r", "e", "t", "u", "r", "n">> :> "RETURN") @@
    (<<"s", "h", "o", "r", "t">> :> "SHORT") @@
    (<<"s", "i", "g", "n", "e", "d">> :> "SIGNED") @@
    (<<"s", "i", "z", "e", "o", "f">> :> "SIZEOF") @@
    (<<"s", "t", "a", "t", "i", "c">> :> "STATIC") @@
    (<<"s", "t", "r", "u", "c", "t">> :> "STRUCT") @@
    (<<"s", "w", "i", "t", "c", "h">> :> "SWITCH") @@
    (<<"t", "y", "p", "e", "d", "e", "f">> :> "TYPEDEF") @@
    (<<"u", "n", "i", "o", "n">> :> "UNION") @@
    (<<"u", "n", "s", "i", "g", "n", "e", "d">> :> "UNSIGNED") @@
    (<<"v", "o", "i", "d">> :> "VOID") @@
    (<<"v", "o", "l", "a", "t", "i", "l", "e">> :> "VOLATILE") @@
    (<<"w", "h", "i", "l", "e">> :> "WHILE") @@
    (<<"i", "n", "c", "l", "u", "d", "e">> :> "INCLUDE") @@
    (<<"d", "e", "f", "i", "n", "e">> :> "DEFINE") @@
    (<<"i", "f", "d", "e", "f">> :> "IFDEF") @@
    (<<"i", "f", "n", "d", "e", "f">> :> "IFNDEF") @@
    (<<"e", "n", "d", "i", "f">> :> "ENDIF") @@
    (<<"p", "r", "i", "n", "t", "f">> :> "PRINTF") @@
    (<<"s", "c", "a", "n", "f">> :> "SCANF")

\* the string rules t_X = r'...' in the order the scanner tries them: longest
\* regular expression first, rules of equal length in name order
StringRules == <<
    [type |-> "INCREMENT", lexeme |-> <<"+", "+">>],
    [type |-> "OR", lexeme |-> <<"|", "|">>],
    [type |-> "MULTIPLY_ASSIGN", lexeme |-> <<"*", "=">>],
    [type |-> "PLUS_ASSIGN", lexeme |-> <<"+", "=">>],
    [type |-> "AND", lexeme |-> <<"&", "&">>],
    [type |-> "ARROW", lexeme |-> <<"-", ">">>],
    [type |-> "BITWISE_OR", lexeme |-> <<"|">>],
    [type |-> "BITWISE_XOR", lexeme |-> <<"^">>],
    [type |-> "DECREMENT", lexeme |-> <<"-", "-">>],
    [type |-> "DIVIDE_ASSIGN", lexeme |-> <<"/", "=">>],
    [type |-> "DOT", lexeme |-> <<".">>],
    [type |-> "EQ", lexeme |-> <<"=", "=">>],
    [type |-> "GE", lexeme |-> <<">", "=">>],
    [type |-> "HASH", lexeme |-> <<"#">>],
    [type |-> "LBRACE", lexeme |-> <<"{">>],
    [type |-> "LBRACKET", lexeme |-> <<"[">>],
    [type |-> "LE", lexeme |-> <<"<", "=">>],
    [type |-> "LEFT_SHIFT", lexeme |-> <<"<", "<">>],
    [type |-> "LPAREN", lexeme |-> <<"(">>],
    [type |-> "MINUS_ASSIGN", lexeme |-> <<"-", "=">>],
    [type |-> "MODULO_ASSIGN", lexeme |-> <<"%", "=">>],
    [type |-> "MULTIPLY", lexeme |-> <<"*">>],
    [type |-> "NE", lexeme |-> <<"!", "=">>],
    [type |-> "PLUS", lexeme |-> <<"+">>],
    [type |-> "QUESTION", lexeme |-> <<"?">>],
    [type |-> "RBRACE", lexeme |-> <<"}">>],
    [type |-> "RBRACKET", lexeme |-> <<"]">>],
    [type |-> "RIGHT_SHIFT", lexeme |-> <<">", ">">>],
    [type |-> "RPAREN", lexeme |-> <<")">>],
    [type |-> "ASSIGN", lexeme |-> <<"=">>],
    [type |-> "BITWISE_AND", lexeme |-> <<"&">>],
    [type |-> "BITWISE_NOT", lexeme |-> <<"~">>],
    [type |-> "COLON", lexeme |-> <<":">>],
    [type |-> "COMMA", lexeme |-> <<",">>],
    [type |-> "DIVIDE", lexeme |-> <<"/">>],
    [type |-> "GT", lexeme |-> <<">">>],
    [type |-> "LT", lexeme |-> <<"<">>],
    [type |-> "MINUS", lexeme |-> <<"-">>],
    [type |-> "MODULO", lexeme |-> <<"%">>],
    [type |-> "NOT", lexeme |-> <<"!">>],
    [type |-> "SEMICOLON", lexeme |-> <<";">>]
>>

\* a lookup that takes a lexeme beginning with a reserved word for that word
reserved_get_prefix(v) ==
    IF \E w \in DOMAIN reserved : Len(w) <= Len(v) /\ SubSeq(v, 1, Len(w)) = w
    THEN reserved[CHOOSE w \in DOMAIN reserved : Len(w) <= Len(v) /\ SubSeq(v, 1, Len(w)) = w]
    ELSE "IDENTIFIER"

\* self.reserved.get(t.value, 'IDENTIFIER')
reserved_get(v) == IF v \in DOMAIN reserved THEN reserved[v] ELSE "IDENTIFIER"

\* t_ignore = ' \t'
t_ignore == {" ", "\t"}

(***************************************************************************)
(* CLexer: what each function rule's regular expression matches at p.      *)
(* Every m_X gives the length of the match, 0 when there is none.          *)
(***************************************************************************)
\* r'<[a-zA-Z_][a-zA-Z0-9_]*\.h>'
m_HEADER_FILE(s, p) ==
    IF At(s, p) = "<" /\ At(s, p + 1) \in IdentStart
    THEN LET q == RunEnd(s, p + 2, IdentChar)
         IN  IF At(s, q) = "." /\ At(s, q + 1) = "h" /\ At(s, q + 2) = ">"
             THEN q + 3 - p ELSE 0
    ELSE 0

\* r'\d+\.\d+([eE][+-]?\d+)?[fF]?'
m_FLOAT_LITERAL(s, p) ==
    IF At(s, p) \notin Digit THEN 0
    ELSE LET q == RunEnd(s, p, Digit)
         IN  IF ~(At(s, q) = "." /\ At(s, q + 1) \in Digit) THEN 0
             ELSE LET f == RunEnd(s, q + 1, Digit)
                      d == IF At(s, f + 1) \in {"+", "-"} THEN f + 2 ELSE f + 1
                      e == IF At(s, f) \in {"e", "E"} /\ At(s, d) \in Digit
                           THEN RunEnd(s, d, Digit) ELSE f
                      z == IF At(s, e) \in {"f", "F"} THEN e + 1 ELSE e
                  IN  z - p

\* r'\d+'
m_INTEGER_LITERAL(s, p) ==
    IF At(s, p) \in Digit THEN RunEnd(s, p, Digit) - p ELSE 0

\* the body ([^q\\]|\\.)* of a quoted literal followed by the closing quote q:
\* the position after the closing quote, 0 when the literal is not closed
RECURSIVE QuotedEnd(_, _, _)
QuotedEnd(s, p, q) ==
    IF p >= Len(s) THEN 0
    ELSE IF At(s, p) = q THEN p + 1
    ELSE IF At(s, p) = "\\"
         THEN IF p + 1 < Len(s) /\ At(s, p + 1) # "\n" THEN QuotedEnd(s, p + 2, q) ELSE 0
    ELSE QuotedEnd(s, p + 1, q)

\* r"'([^'\\]|\\.)*'"
m_CHAR_LITERAL(s, p) ==
    IF At(s, p) = "'" /\ QuotedEnd(s, p + 1, "'") > 0 THEN QuotedEnd(s, p + 1, "'") - p ELSE 0

\* r'"([^"\\]|\\.)*"'
m_STRING_LITERAL(s, p) ==
    IF At(s, p) = "\"" /\ QuotedEnd(s, p + 1, "\"") > 0
    THEN QuotedEnd(s, p + 1, "\"") - p ELSE 0

\* r'[a-zA-Z_][a-zA-Z0-9_]*'
m_IDENTIFIER(s, p) ==
    IF At(s, p) \in IdentStart THEN RunEnd(s, p + 1, IdentChar) - p ELSE 0

\* r'/\*(.|\n)*?\*/' : up to the first "*/" after the opening "/*"
m_MULTILINE_COMMENT(s, p) ==
    IF At(s, p) = "/" /\ At(s, p + 1) = "*"
          /\ \E q \in (p + 2)..Len(s) : At(s, q) = "*" /\ At(s, q + 1) = "/"
    THEN LET q == CHOOSE q \in (p + 2)..Len(s) :
                      /\ At(s, q) = "*" /\ At(s, q + 1) = "/"
                      /\ \A k \in (p + 2)..(q - 1) : ~(At(s, k) = "*" /\ At(s, k + 1) = "/")
         IN  q + 2 - p
    ELSE 0

\* r'//.*' : to the end of the line
m_COMMENT(s, p) ==
    IF At(s, p) = "/" /\ At(s, p + 1) = "/"
    THEN (CHOOSE q \in (p + 2)..Len(s) :
              /\ At(s, q) \in {"\n", NoChar}
              /\ \A k \in (p + 2)..(q - 1) : At(s, k) # "\n") - p
    ELSE 0

\* r'\n+'
m_newline(s, p) ==
    IF At(s, p) = "\n" THEN RunEnd(s, p, {"\n"}) - p ELSE 0

\* the function rules, in the order of their definition in the class
FunctionRules == <<"HEADER_FILE", "FLOAT_LITERAL", "INTEGER_LITERAL", "CHAR_LITERAL",
                   "STRING_LITERAL", "IDENTIFIER", "MULTILINE_COMMENT", "COMMENT", "newline">>

FunctionMatch(rule, s, p) ==
    CASE rule = "HEADER_FILE" -> m_HEADER_FILE(s, p)
      [] rule = "FLOAT_LITERAL" -> m_FLOAT_LITERAL(s, p)
      [] rule = "INTEGER_LITERAL" -> m_INTEGER_LITERAL(s, p)
      [] rule = "CHAR_LITERAL" -> m_CHAR_LITERAL(s, p)
      [] rule = "STRING_LITERAL" -> m_STRING_LITERAL(s, p)
      [] rule = "IDENTIFIER" -> m_IDENTIFIER(s, p)
      [] rule = "MULTILINE_COMMENT" -> m_MULTILINE_COMMENT(s, p)
      [] rule = "COMMENT" -> m_COMMENT(s, p)
      [] rule = "newline" -> m_newline(s, p)

StringMatch(r, s, p) ==
    IF \A k \in 1..Len(r.lexeme) : At(s, p + k - 1) = r.lexeme[k] THEN Len(r.lexeme) ELSE 0

\* a master expression that lists the string rules the other way round
MasterMatch_last(s, p) ==
    IF \E i \in DOMAIN FunctionRules : FunctionMatch(FunctionRules[i], s, p) > 0
    THEN LET i == CHOOSE i \in DOMAIN FunctionRules :
                      /\ FunctionMatch(FunctionRules[i], s, p) > 0
                      /\ \A j \in 1..(i - 1) : FunctionMatch(FunctionRules[j], s, p) = 0
         IN  [rule |-> FunctionRules[i], len |-> FunctionMatch(FunctionRules[i], s, p)]
    ELSE IF \E i \in DOMAIN StringRules : StringMatch(StringRules[i], s, p) > 0
    THEN LET i == CHOOSE i \in DOMAIN StringRules :
                      /\ StringMatch(StringRules[i], s, p) > 0
                      /\ \A j \in (i + 1)..Len(StringRules) : StringMatch(StringRules[j], s, p) = 0
         IN  [rule |-> StringRules[i].type, len |-> StringMatch(StringRules[i], s, p)]
    ELSE [rule |-> "none", len |-> 0]

\* the master regular expression: the first rule, function rules before string
\* rules, that matches at p; rule "none" when no rule matches
MasterMatch(s, p) ==
    IF \E i \in DOMAIN FunctionRules : FunctionMatch(FunctionRules[i], s, p) > 0
    THEN LET i == CHOOSE i \in DOMAIN FunctionRules :
                      /\ FunctionMatch(FunctionRules[i], s, p) > 0
                      /\ \A j \in 1..(i - 1) : FunctionMatch(FunctionRules[j], s, p) = 0
         IN  [rule |-> FunctionRules[i], len |-> FunctionMatch(FunctionRules[i], s, p)]
    ELSE IF \E i \in DOMAIN StringRules : StringMatch(StringRules[i], s, p) > 0
    THEN LET i == CHOOSE i \in DOMAIN StringRules :
                      /\ StringMatch(StringRules[i], s, p) > 0
                      /\ \A j \in 1..(i - 1) : StringMatch(StringRules[j], s, p) = 0
         IN  [rule |-> StringRules[i].type, len |-> StringMatch(StringRules[i], s, p)]
    ELSE [rule |-> "none", len |-> 0]

(***************************************************************************)
(* CLexer: token values and the scanner                                    *)
(***************************************************************************)
\* a token's value: the matched text (str), int(text) or float(text)
StrVal(text) == [k |-> "str", s |-> text, n |-> 0]
IntVal(text) == [k |-> "int", s |-> <<>>, n |-> StrToInt(text)]
FloatVal(text) == [k |-> "float", s |-> rstrip_fF(text), n |-> 0]

\* t.value.count('\n')
RECURSIVE CountNewlines(_)
CountNewlines(text) ==
    IF text = <<>> THEN 0
    ELSE (IF Head(text) = "\n" THEN 1 ELSE 0) + CountNewlines(Tail(text))

\* CLexer.__init__ / build: a scanner with no input, at line 1
CLexer_init ==
    [lexdata |-> <<>>, lexpos |-> 0, lineno |-> 1, tokens_list |-> <<>>,
     printed |-> <<>>, raised |-> "none"]

\* the token a rule yields for the text it matched, before the rule function runs
RuleToken(L, m) ==
    [type |-> m.rule, value |-> StrVal(Slice(L.lexdata, L.lexpos, L.lexpos + m.len)),
     line |-> L.lineno, position |-> L.lexpos]

\* the token after the rule function ran: t_FLOAT_LITERAL, t_INTEGER_LITERAL and
\* t_IDENTIFIER rewrite value or type, the others return the token as it is
RuleResult(L, m) ==
    LET t == RuleToken(L, m)
    IN  CASE m.rule = "FLOAT_LITERAL" -> [t EXCEPT !.value = FloatVal(t.value.s)]
          [] m.rule = "INTEGER_LITERAL" -> [t EXCEPT !.value = IntVal(t.value.s)]
          [] m.rule = "IDENTIFIER" -> [t EXCEPT !.type = reserved_get(t.value.s)]
          [] OTHER -> t

\* t_newline assigning the length of the run to the line counter
RuleLineno_assign(L, m) ==
    LET text == Slice(L.lexdata, L.lexpos, L.lexpos + m.len)
    IN  CASE m.rule = "MULTILINE_COMMENT" -> L.lineno + CountNewlines(text)
          [] m.rule = "newline" -> Len(text)
          [] OTHER -> L.lineno

\* t.lexer.lineno after the rule function ran: t_MULTILINE_COMMENT adds the
\* newlines of the comment, t_newline the length of the run, no other rule counts
RuleLineno(L, m) ==
    LET text == Slice(L.lexdata, L.lexpos, L.lexpos + m.len)
    IN  CASE m.rule = "MULTILINE_COMMENT" -> L.lineno + CountNewlines(text)
          [] m.rule = "newline" -> L.lineno + Len(text)
          [] OTHER -> L.lineno

\* one scanner step on a rule match: the rule function runs, the token it
\* returns (t_newline returns none) is appended by tokenize's loop
t_match(L, m) ==
    [L EXCEPT !.lexpos = L.lexpos + m.len,
              !.lineno = RuleLineno(L, m),
              !.tokens_list = IF m.rule = "newline" THEN @ ELSE Append(@, RuleResult(L, m))]

\* t_error without the skip
t_error_noskip(L) == L

\* t.lexer.skip(1) of t_error
t_error_skip(L) == [L EXCEPT !.lexpos = L.lexpos + 1]

\* t_error: print the diagnostic, skip one character; the scanner raises LexError
\* when the error rule left the cursor where it was
t_error(L) ==
    LET E == [L EXCEPT !.printed = Append(@, [char |-> At(L.lexdata, L.lexpos),
                                               line |-> L.lineno])]
        S == t_error_skip(E)
    IN  IF S.lexpos = L.lexpos THEN [S EXCEPT !.raised = "LexError"] ELSE S

\* a character of t_ignore is passed over
t_skip_ignored(L) == [L EXCEPT !.lexpos = L.lexpos + 1]

\* what the scanner does at the cursor
StepKind(L) ==
    IF L.raised # "none" THEN "raised"
    ELSE IF L.lexpos >= Len(L.lexdata) THEN "eof"
    ELSE IF At(L.lexdata, L.lexpos) \in t_ignore THEN "ignore"
    ELSE IF MasterMatch(L.lexdata, L.lexpos).rule # "none" THEN "match"
    ELSE "error"

LexStep(L) ==
    CASE StepKind(L) = "ignore" -> t_skip_ignored(L)
      [] StepKind(L) = "match" -> t_match(L, MasterMatch(L.lexdata, L.lexpos))
      [] StepKind(L) = "error" -> t_error(L)
      [] OTHER -> L

\* self.tokens_list = []; self.lexer.input(code): the line counter is kept
tokenize_begin(L, code) ==
    [L EXCEPT !.tokens_list = <<>>, !.lexdata = code, !.lexpos = 0]

RECURSIVE LexRun(_)
LexRun(L) == IF StepKind(L) \in {"eof", "raised"} THEN L ELSE LexRun(LexStep(L))

\* CLexer.tokenize: the instance after the call; its tokens_list is the result
tokenize(L, code) == LexRun(tokenize_begin(L, code))

(***************************************************************************)
(* ast_nodes.py: the AST node classes.  A node is a record: cls is its     *)
(* Python class, attributes its kwargs in insertion order, children its    *)
(* child list, extra the parameters of a Function.                         *)
(***************************************************************************)
\* the text constants the constructors store
S_variable == <<"v", "a", "r", "i", "a", "b", "l", "e">>
S_Literal == <<"L", "i", "t", "e", "r", "a", "l">>
S_Identifier == <<"I", "d", "e", "n", "t", "i", "f", "i", "e", "r">>
S_FunctionCall == <<"F", "u", "n", "c", "t", "i", "o", "n", "C", "a", "l", "l">>
S_integer == <<"i", "n", "t", "e", "g", "e", "r">>
S_string == <<"s", "t", "r", "i", "n", "g">>
S_IfStatement == <<"I", "f", "S", "t", "a", "t", "e", "m", "e", "n", "t">>
S_ReturnStatement == <<"R", "e", "t", "u", "r", "n", "S", "t", "a", "t", "e", "m", "e", "n", "t">>
S_Block == <<"B", "l", "o", "c", "k">>
S_None == <<"N", "o", "n", "e">>

NoneVal == [k |-> "none", s |-> <<>>, n |-> 0]
None == [cls |-> "None", node_type |-> "None", attributes |-> <<>>, children |-> <<>>,
         line |-> 0, extra |-> <<>>]

Attr(key, value) == [key |-> key, value |-> value]

\* ASTNode.__init__
ASTNode(cls, node_type, attributes) ==
    [cls |-> cls, node_type |-> node_type, attributes |-> attributes, children |-> <<>>,
     line |-> 0, extra |-> <<>>]

\* ASTNode.add_child: None is not appended
add_child(node, child) ==
    IF child # None THEN [node EXCEPT !.children = Append(@, child)] ELSE node

\* ASTNode.get_attribute: self.attributes.get(name)
get_attribute(node, name) ==
    IF \E i \in DOMAIN node.attributes : node.attributes[i].key = name
    THEN node.attributes[CHOOSE i \in DOMAIN node.attributes : node.attributes[i].key = name].value
    ELSE NoneVal

RECURSIVE add_children(_, _)
add_children(node, children) ==
    IF children = <<>> THEN node
    ELSE add_children(add_child(node, Head(children)), Tail(children))

Program == ASTNode("Program", "Program", <<>>)

Declaration(decl_type, name, data_type) ==
    ASTNode("Declaration", "Declaration",
            <<Attr("decl_type", decl_type), Attr("name", name), Attr("data_type", data_type)>>)

Function(name, return_type, parameters) ==
    [ASTNode("Function", "Function", <<Attr("name", name), Attr("return_type", return_type)>>)
        EXCEPT !.extra = parameters]

\* Statement.__init__ and Expression.__init__ store the subclass name
Statement(cls, stmt_type) ==
    ASTNode(cls, "Statement", <<Attr("stmt_type", StrVal(stmt_type))>>)
Expression(cls, expr_type, attributes) ==
    ASTNode(cls, "Expression", <<Attr("expr_type", StrVal(expr_type))>> \o attributes)

Identifier(name) == Expression("Identifier", S_Identifier, <<Attr("name", name)>>)

Literal(value, literal_type) ==
    Expression("Literal", S_Literal,
               <<Attr("value", value), Attr("literal_type", StrVal(literal_type))>>)

FunctionCall(function_name, arguments) ==
    add_children(Expression("FunctionCall", S_FunctionCall,
                            <<Attr("function_name", function_name)>>), arguments)

\* IfStatement.__init__: condition and then_stmt go through add_child, else_stmt
\* is added when it is not None
IfStatement(condition, then_stmt, else_stmt) ==
    LET n0 == Statement("IfStatement", S_IfStatement)
        n1 == add_child(add_child(n0, condition), then_stmt)
    IN  IF else_stmt # None THEN add_child(n1, else_stmt) ELSE n1

ReturnStatement(value) ==
    LET n0 == Statement("ReturnStatement", S_ReturnStatement)
    IN  IF value # None THEN add_child(n0, value) ELSE n0

Block(statements) == add_children(Statement("Block", S_Block), statements)

PreprocessorDirective(directive, content) ==
    ASTNode("PreprocessorDirective", "PreprocessorDirective",
            <<Attr("directive", directive), Attr("content", content)>>)

(***************************************************************************)
(* CParser.  P is the parser instance: its lexer, tokens and               *)
(* current_token_index; current_token is always tokens[current_token_index]*)
(* or None, so it is derived.  A parse method gives [P, node]: the         *)
(* instance after the call and the node returned (None for Python's None). *)
(***************************************************************************)
NoToken == [type |-> "None", value |-> NoneVal, line |-> 0, position |-> 0]

\* CParser.__init__
CParser_init == [lexer |-> CLexer_init, tokens |-> <<>>, current_token_index |-> 0]

TokAt(tokens, i) == IF i >= 0 /\ i < Len(tokens) THEN tokens[i + 1] ELSE NoToken

current_token(P) == TokAt(P.tokens, P.current_token_index)

advance(P) == [P EXCEPT !.current_token_index = @ + 1]

peek(P, offset) == TokAt(P.tokens, P.current_token_index + offset)

match(P, token_type) == current_token(P) # NoToken /\ current_token(P).type = token_type

\* consume: the token is returned through match at the call sites; here the
\* instance after the call
consume(P, token_type) == IF match(P, token_type) THEN advance(P) ELSE P

is_type(P) == current_token(P).type \in {"INT", "FLOAT", "DOUBLE", "CHAR", "VOID"}

is_declaration(P) == is_type(P)

\* the balanced scan of is_function_definition from lookahead offset j0 with
\* paren_count 1: [j, paren_count] when the loop ends
RECURSIVE paren_scan(_, _, _)
paren_scan(P, j, paren_count) ==
    IF j < Len(P.tokens) - P.current_token_index /\ paren_count > 0
    THEN IF peek(P, j) = NoToken THEN [j |-> j, paren_count |-> paren_count]
         ELSE paren_scan(P, j + 1,
                         CASE peek(P, j).type = "LPAREN" -> paren_count + 1
                           [] peek(P, j).type = "RPAREN" -> paren_count - 1
                           [] OTHER -> paren_count)
    ELSE [j |-> j, paren_count |-> paren_count]

\* the body of the lookahead loop of is_function_definition at offset i, which
\* holds an IDENTIFIER
function_probe(P, i) ==
    /\ peek(P, i + 1).type = "LPAREN"
    /\ LET r == paren_scan(P, i + 2, 1)
       IN  r.paren_count = 0 /\ peek(P, r.j).type = "LBRACE"

\* the heuristic without the look at the token after the closing parenthesis
is_function_definition_no_brace(P) ==
    /\ is_type(P)
    /\ \E i \in {1, 2} :
          /\ \A k \in 1..(i - 1) : peek(P, k) # NoToken /\ peek(P, k).type # "IDENTIFIER"
          /\ peek(P, i).type = "IDENTIFIER" /\ peek(P, i + 1).type = "LPAREN"
          /\ paren_scan(P, i + 2, 1).paren_count = 0

is_function_definition(P) ==
    /\ is_type(P)
    /\ IF peek(P, 1) = NoToken THEN FALSE
       ELSE IF peek(P, 1).type = "IDENTIFIER" THEN function_probe(P, 1)
       ELSE IF peek(P, 2) = NoToken THEN FALSE
       ELSE IF peek(P, 2).type = "IDENTIFIER" THEN function_probe(P, 2)
       ELSE FALSE

parse_preprocessor(P) ==
    IF ~match(P, "HASH") THEN [P |-> P, node |-> None]
    ELSE LET P1 == advance(P)
         IN  IF match(P1, "INCLUDE")
             THEN LET directive == current_token(P1).value
                      P2 == advance(P1)
                  IN  IF match(P2, "HEADER_FILE")
                      THEN [P |-> advance(P2),
                            node |-> PreprocessorDirective(directive, current_token(P2).value)]
                      ELSE [P |-> P2, node |-> PreprocessorDirective(directive, NoneVal)]
             ELSE [P |-> P1, node |-> None]

\* the cursor after "while self.current_token and not self.match(t): self.advance()"
skip_until(P, token_type) ==
    [P EXCEPT !.current_token_index =
        CHOOSE i \in P.current_token_index..Max(P.current_token_index, Len(P.tokens)) :
            /\ i >= Len(P.tokens) \/ TokAt(P.tokens, i).type = token_type
            /\ \A k \in P.current_token_index..(i - 1) : TokAt(P.tokens, k).type # token_type]

\* parse_declaration without the skip of the initializer
parse_declaration_no_skip(P) ==
    IF ~is_type(P) THEN [P |-> P, node |-> None]
    ELSE IF ~match(advance(P), "IDENTIFIER") THEN [P |-> advance(P), node |-> None]
    ELSE [P |-> consume(advance(advance(P)), "SEMICOLON"),
          node |-> Declaration(StrVal(S_variable), current_token(advance(P)).value,
                               current_token(P).value)]

parse_declaration(P) ==
    IF ~is_type(P) THEN [P |-> P, node |-> None]
    ELSE LET data_type == current_token(P).value
             P1 == advance(P)
         IN  IF ~match(P1, "IDENTIFIER") THEN [P |-> P1, node |-> None]
             ELSE LET var_name == current_token(P1).value
                      P2 == advance(P1)
                      P3 == IF match(P2, "ASSIGN") THEN skip_until(advance(P2), "SEMICOLON") ELSE P2
                  IN  [P |-> consume(P3, "SEMICOLON"),
                       node |-> Declaration(StrVal(S_variable), var_name, data_type)]

parse_simple_expression(P) ==
    IF match(P, "IDENTIFIER")
    THEN LET name == current_token(P).value
             P1 == advance(P)
         IN  IF match(P1, "LPAREN")
             THEN LET P2 == skip_until(advance(P1), "RPAREN")
                  IN  IF match(P2, "RPAREN")
                      THEN [P |-> advance(P2), node |-> FunctionCall(name, <<>>)]
                      ELSE [P |-> P2, node |-> Identifier(name)]
             ELSE [P |-> P1, node |-> Identifier(name)]
    ELSE IF match(P, "INTEGER_LITERAL")
    THEN [P |-> advance(P), node |-> Literal(current_token(P).value, S_integer)]
    ELSE IF match(P, "STRING_LITERAL")
    THEN [P |-> advance(P), node |-> Literal(current_token(P).value, S_string)]
    ELSE [P |-> IF current_token(P) # NoToken THEN advance(P) ELSE P, node |-> None]

parse_expression_statement(P) ==
    LET e == parse_simple_expression(P)
    IN  IF match(e.P, "SEMICOLON") THEN [P |-> advance(e.P), node |-> e.node]
        ELSE [P |-> e.P, node |-> None]

parse_return_statement(P) ==
    IF ~match(P, "RETURN") THEN [P |-> P, node |-> None]
    ELSE LET P1 == advance(P)
             v == IF ~match(P1, "SEMICOLON") THEN parse_simple_expression(P1)
                  ELSE [P |-> P1, node |-> None]
         IN  IF match(v.P, "SEMICOLON")
             THEN [P |-> advance(v.P), node |-> ReturnStatement(v.node)]
             ELSE [P |-> v.P, node |-> None]

RECURSIVE parse_statement(_), parse_if_statement(_)
parse_if_statement(P) ==
    IF ~match(P, "IF") THEN [P |-> P, node |-> None]
    ELSE LET P1 == advance(P)
         IN  IF ~match(P1, "LPAREN") THEN [P |-> P1, node |-> None]
             ELSE LET c == parse_simple_expression(advance(P1))
                  IN  IF ~match(c.P, "RPAREN") THEN [P |-> c.P, node |-> None]
                      ELSE LET th == parse_statement(advance(c.P))
                               el == IF match(th.P, "ELSE") THEN parse_statement(advance(th.P))
                                     ELSE [P |-> th.P, node |-> None]
                           IN  [P |-> el.P, node |-> IfStatement(c.node, th.node, el.node)]

parse_statement(P) ==
    IF match(P, "RETURN") THEN parse_return_statement(P)
    ELSE IF match(P, "IF") THEN parse_if_statement(P)
    ELSE IF is_declaration(P) THEN parse_declaration(P)
    ELSE parse_expression_statement(P)

(***************************************************************************)
(* CParser: the loops of parse_program, parse_function and parse_block,    *)
(* one iteration at a time.  S is a parse in progress: the instance P, the *)
(* position pc ("program" | "params" | "block" | "done"), the Program      *)
(* built so far and the locals of the parse_function / parse_block call    *)
(* in progress.  top is the cursor at the start of the current top-level   *)
(* iteration.                                                              *)
(***************************************************************************)
\* parse without the reset of the cursor
parse_begin_keep_cursor(P, code) ==
    [P |-> [lexer |-> tokenize(P.lexer, code), tokens |-> tokenize(P.lexer, code).tokens_list,
            current_token_index |-> P.current_token_index],
     pc |-> "program", program |-> Program, top |-> P.current_token_index,
     func_name |-> NoneVal, return_type |-> NoneVal,
     parameters |-> <<>>, statements |-> <<>>]

\* parse that keeps the token list it has when the new one is empty
parse_begin_keep_tokens(P, code) ==
    LET L == tokenize(P.lexer, code)
    IN  [P |-> [lexer |-> L, tokens |-> IF L.tokens_list = <<>> THEN P.tokens ELSE L.tokens_list,
                current_token_index |-> 0],
         pc |-> "program", program |-> Program, top |-> 0,
         func_name |-> NoneVal, return_type |-> NoneVal,
         parameters |-> <<>>, statements |-> <<>>]

\* CParser.parse up to the call of parse_program: tokenize, reset the cursor
parse_begin(P, code) ==
    LET L == tokenize(P.lexer, code)
    IN  [P |-> [lexer |-> L, tokens |-> L.tokens_list, current_token_index |-> 0],
         pc |-> "program", program |-> Program, top |-> 0,
         func_name |-> NoneVal, return_type |-> NoneVal,
         parameters |-> <<>>, statements |-> <<>>]

\* parse_program, branch HASH
program_preprocessor(S) ==
    LET r == parse_preprocessor(S.P)
    IN  [S EXCEPT !.P = r.P, !.program = add_child(@, r.node)]

\* parse_program, branch is_declaration
program_declaration(S) ==
    LET r == parse_declaration(S.P)
    IN  [S EXCEPT !.P = r.P, !.program = add_child(@, r.node)]

\* parse_program, last branch: skip unknown tokens
program_skip(S) == [S EXCEPT !.P = advance(S.P)]

\* parse_program, branch is_function_definition: parse_function up to its
\* parameter loop; a None return leaves the Program as it is
function_head(S) ==
    LET P == S.P
    IN  IF ~is_type(P) THEN S
        ELSE IF ~match(advance(P), "IDENTIFIER") THEN [S EXCEPT !.P = advance(P)]
        ELSE IF ~match(advance(advance(P)), "LPAREN") THEN [S EXCEPT !.P = advance(advance(P))]
        ELSE [S EXCEPT !.P = advance(advance(advance(P))),
                       !.top = P.current_token_index,
                       !.return_type = current_token(P).value,
                       !.func_name = current_token(advance(P)).value,
                       !.parameters = <<>>,
                       !.pc = "params"]

\* the condition of parse_function's parameter loop
param_loop_cond(S) == current_token(S.P) # NoToken /\ ~match(S.P, "RPAREN")

\* one iteration of parse_function's parameter loop
param_iter(S) ==
    LET P == S.P
        A == IF is_type(P)
             THEN LET P1 == advance(P)
                  IN  IF match(P1, "IDENTIFIER")
                      THEN [P |-> advance(P1),
                            parameters |-> Append(S.parameters,
                                [type |-> current_token(P).value, name |-> current_token(P1).value])]
                      ELSE [P |-> P1,
                            parameters |-> Append(S.parameters,
                                [type |-> current_token(P).value, name |-> NoneVal])]
             ELSE [P |-> P, parameters |-> S.parameters]
    IN  [S EXCEPT !.P = IF match(A.P, "COMMA") THEN advance(A.P) ELSE A.P,
                  !.parameters = A.parameters]

\* parse_function after its parameter loop: the closing parenthesis, the
\* Function node and, at a '{', the entry into parse_block
function_after_params(S) ==
    IF ~match(S.P, "RPAREN") THEN [S EXCEPT !.pc = "program"]
    ELSE LET P1 == advance(S.P)
             func == Function(S.func_name, S.return_type, S.parameters)
         IN  IF match(P1, "LBRACE")
             THEN [S EXCEPT !.P = advance(P1), !.statements = <<>>, !.pc = "block"]
             ELSE [S EXCEPT !.P = P1, !.program = add_child(@, func), !.pc = "program"]

\* the condition of parse_block's loop
block_loop_cond(S) == current_token(S.P) # NoToken /\ ~match(S.P, "RBRACE")

\* one iteration of parse_block's loop
block_iter(S) ==
    LET r == parse_statement(S.P)
    IN  IF r.node # None
        THEN [S EXCEPT !.P = r.P, !.statements = Append(@, r.node)]
        ELSE [S EXCEPT !.P = advance(r.P)]

\* parse_block after its loop, then the end of parse_function and
\* program.add_child(func)
block_done(S) ==
    LET func == Function(S.func_name, S.return_type, S.parameters)
        body == IF match(S.P, "RBRACE") THEN Block(S.statements) ELSE None
    IN  [S EXCEPT !.P = consume(S.P, "RBRACE"),
                  !.program = add_child(@, add_child(func, body)),
                  !.pc = "program"]

\* parse_program returns
program_done(S) == [S EXCEPT !.pc = "done"]

\* what the parser does next
ParseKind(S) ==
    CASE S.pc = "program" ->
            IF current_token(S.P) = NoToken THEN "program_done"
            ELSE IF match(S.P, "HASH") THEN "program_preprocessor"
            ELSE IF is_function_definition(S.P) THEN "function_head"
            ELSE IF is_declaration(S.P) THEN "program_declaration"
            ELSE "program_skip"
      [] S.pc = "params" -> IF param_loop_cond(S) THEN "param_iter" ELSE "function_after_params"
      [] S.pc = "block" -> IF block_loop_cond(S) THEN "block_iter" ELSE "block_done"
      [] OTHER -> "none"

ParseStep(S) ==
    CASE ParseKind(S) = "program_done" -> program_done(S)
      [] ParseKind(S) = "program_preprocessor" -> program_preprocessor(S)
      [] ParseKind(S) = "function_head" -> function_head(S)
      [] ParseKind(S) = "program_declaration" -> program_declaration(S)
      [] ParseKind(S) = "program_skip" -> program_skip(S)
      [] ParseKind(S) = "param_iter" -> param_iter(S)
      [] ParseKind(S) = "function_after_params" -> function_after_params(S)
      [] ParseKind(S) = "block_iter" -> block_iter(S)
      [] ParseKind(S) = "block_done" -> block_done(S)
      [] OTHER -> S

\* the parse run to its end.  A step that leaves the whole parse state as it was
\* repeats for ever: the call does not return (pc "hang")
RECURSIVE ParseRun(_)
ParseRun(S) ==
    IF S.pc = "done" THEN S
    ELSE IF ParseStep(S) = S THEN [S EXCEPT !.pc = "hang"]
    ELSE ParseRun(ParseStep(S))

\* CParser.parse: the parse state when the call returns (pc "done": program is
\* the node returned, P the instance) or when it no longer makes progress
parse(P, code) == ParseRun(parse_begin(P, code))

(***************************************************************************)
(* cfg_nodes.py: CFGNode and ControlFlowGraph.  A graph g is a record:     *)
(* nodes is the id-to-node dict in insertion order, start_node and the     *)
(* entries of end_nodes, successors and predecessors are references to     *)
(* nodes, written as the node's id (NoNode for None).                      *)
(***************************************************************************)
S_node_ == <<"n", "o", "d", "e", "_">>
S_Program_Start == <<"P", "r", "o", "g", "r", "a", "m", " ", "S", "t", "a", "r", "t">>
S_Program_End == <<"P", "r", "o", "g", "r", "a", "m", " ", "E", "n", "d">>
S_Call_ == <<"C", "a", "l", "l", " ">>
S_Function_ == <<"F", "u", "n", "c", "t", "i", "o", "n", " ">>
S_parens == <<"(", ")">>
S_return == <<"r", "e", "t", "u", "r", "n">>
S_return_ == <<"r", "e", "t", "u", "r", "n", " ">>
S_if_condition == <<"i", "f", " ", "c", "o", "n", "d", "i", "t", "i", "o", "n">>
S_merge == <<"m", "e", "r", "g", "e">>
S_loop == <<"l", "o", "o", "p">>
S_assignment_ == <<"a", "s", "s", "i", "g", "n", "m", "e", "n", "t", " ">>
S_comma_ == <<",", " ">>
S_eq == <<"=">>

NoNode == <<>>

\* str(v) of an attribute or token value
PyStr(v) ==
    CASE v.k = "int" -> IntToStr(v.n)
      [] v.k = "none" -> S_None
      [] OTHER -> v.s

\* ControlFlowGraph.__init__
ControlFlowGraph_init ==
    [nodes |-> <<>>, start_node |-> NoNode, end_nodes |-> <<>>, node_counter |-> 0]

\* CFGNode.__init__
CFGNode(node_id, node_type, content, kwargs) ==
    [node_id |-> node_id, node_type |-> node_type, content |-> content,
     successors |-> <<>>, predecessors |-> <<>>, attributes |-> kwargs]

HasNode(g, node_id) == \E i \in DOMAIN g.nodes : g.nodes[i].node_id = node_id

NodeIndex(g, node_id) == CHOOSE i \in DOMAIN g.nodes : g.nodes[i].node_id = node_id

\* ControlFlowGraph.get_node: self.nodes.get(node_id)
get_node(g, node_id) == g.nodes[NodeIndex(g, node_id)]

\* ControlFlowGraph.add_node: self.nodes[node.node_id] = node
add_node(g, node) ==
    IF HasNode(g, node.node_id)
    THEN [g EXCEPT !.nodes[NodeIndex(g, node.node_id)] = node]
    ELSE [g EXCEPT !.nodes = Append(@, node)]

\* kwargs.get(key, default) for the keyword arguments of create_node
KwGet(kwargs, key, default) ==
    IF \E i \in DOMAIN kwargs : kwargs[i].key = key
    THEN kwargs[CHOOSE i \in DOMAIN kwargs : kwargs[i].key = key].value
    ELSE default

\* the counter left as it is
next_counter_same(g) == g.node_counter

\* self.node_counter += 1
next_counter(g) == g.node_counter + 1

\* node_id = f"node_{self.node_counter}"
make_node_id(counter) == S_node_ \o IntToStr(counter)

\* the node a create_node call constructs: the subclass constructors fix type,
\* content and (empty) attributes
new_node(node_id, node_type, content, kwargs) ==
    CASE node_type = "START" -> CFGNode(node_id, "START", S_Program_Start, <<>>)
      [] node_type = "END" -> CFGNode(node_id, "END", S_Program_End, <<>>)
      [] node_type = "PROCESS" -> CFGNode(node_id, "PROCESS", content, <<>>)
      [] node_type = "DECISION" -> CFGNode(node_id, "DECISION", content, <<>>)
      [] node_type = "FUNCTION" ->
            CFGNode(node_id, "FUNCTION",
                    IF KwGet(kwargs, "is_call", "True") = "True"
                    THEN S_Call_ \o content \o S_parens ELSE S_Function_ \o content, <<>>)
      [] node_type = "RETURN" ->
            CFGNode(node_id, "RETURN",
                    IF content # <<>> THEN S_return_ \o content ELSE S_return, <<>>)
      [] node_type = "LOOP" ->
            CFGNode(node_id, "LOOP",
                    IF content # <<>>
                    THEN KwGet(kwargs, "loop_type", S_loop) \o <<" ", "(">> \o content \o <<")">>
                    ELSE KwGet(kwargs, "loop_type", S_loop), <<>>)
      [] node_type = "ASSIGNMENT" -> CFGNode(node_id, "ASSIGNMENT", content, <<>>)
      [] OTHER -> CFGNode(node_id, node_type, content, kwargs)

\* self.node_counter += 1 (statement)
count_node(g) == [g EXCEPT !.node_counter = next_counter(g)]

\* the id of the node the last create_node call made: f"node_{self.node_counter}"
created_id(g) == make_node_id(g.node_counter)

\* self.start_node = node / self.end_nodes.append(node)
track_node(g, node_type, node_id) ==
    [g EXCEPT !.start_node = IF node_type = "START" THEN node_id ELSE @,
              !.end_nodes = IF node_type = "END" THEN Append(@, node_id) ELSE @]

\* create_node after the counter is incremented
create_counted(g, node_type, content, kwargs) ==
    add_node(track_node(g, node_type, created_id(g)),
             new_node(created_id(g), node_type, content, kwargs))

\* ControlFlowGraph.create_node; the node created is the one with id
\* created_id of the graph it gives
create_node(g, node_type, content, kwargs) ==
    create_counted(count_node(g), node_type, content, kwargs)

InSeq(x, s) == \E i \in DOMAIN s : s[i] = x

\* if node not in self.successors: self.successors.append(node)
append_successor(g, self, node) ==
    IF ~InSeq(node, get_node(g, self).successors)
    THEN [g EXCEPT !.nodes[NodeIndex(g, self)].successors = Append(@, node)]
    ELSE g

\* if node not in self.predecessors: self.predecessors.append(node)
append_predecessor(g, self, node) ==
    IF ~InSeq(node, get_node(g, self).predecessors)
    THEN [g EXCEPT !.nodes[NodeIndex(g, self)].predecessors = Append(@, node)]
    ELSE g

\* add_successor without its second half: the predecessor list is not updated
add_successor_one_way(g, self, node) == append_successor(g, self, node)

\* CFGNode.add_successor, self and node given by id
add_successor(g, self, node) ==
    append_predecessor(append_successor(g, self, node), node, self)

\* CFGNode.add_predecessor, self and node given by id
add_predecessor(g, self, node) ==
    append_successor(append_predecessor(g, self, node), node, self)

\* connect_nodes that looks up the source node only
connect_nodes_unchecked(g, from_node_id, to_node_id) ==
    IF HasNode(g, from_node_id) THEN append_successor(g, from_node_id, to_node_id) ELSE g

\* connect_nodes with the two nodes taken the other way round
connect_nodes_swapped(g, from_node_id, to_node_id) ==
    IF HasNode(g, from_node_id) /\ HasNode(g, to_node_id)
    THEN add_successor(g, to_node_id, from_node_id)
    ELSE g

\* ControlFlowGraph.connect_nodes
connect_nodes(g, from_node_id, to_node_id) ==
    IF HasNode(g, from_node_id) /\ HasNode(g, to_node_id)
    THEN add_successor(g, from_node_id, to_node_id)
    ELSE g

\* ControlFlowGraph.get_all_nodes
get_all_nodes(g) == g.nodes

\* ControlFlowGraph.get_edges: the (node id, successor id) pairs, node by node
RECURSIVE edges_from(_, _)
edges_from(nodes, k) ==
    IF k > Len(nodes) THEN <<>>
    ELSE [i \in 1..Len(nodes[k].successors) |-> <<nodes[k].node_id, nodes[k].successors[i]>>]
         \o edges_from(nodes, k + 1)

get_edges(g) == edges_from(g.nodes, 1)

(***************************************************************************)
(* CFGGenerator.  G is the generator instance: its parser, cfg and         *)
(* current_node (a node id, NoNode for None), and raised, the exception    *)
(* in flight ("none" when there is none).  A _process method gives         *)
(* [G, ret]: the instance after the call and the node returned.  Once an   *)
(* exception is in flight every later step of the call is skipped.         *)
(***************************************************************************)
\* the text of the attribute keys and node_type names, for str() and f-strings
TextOf ==
    ("decl_type" :> <<"d", "e", "c", "l", "_", "t", "y", "p", "e">>) @@
    ("name" :> <<"n", "a", "m", "e">>) @@
    ("data_type" :> <<"d", "a", "t", "a", "_", "t", "y", "p", "e">>) @@
    ("return_type" :> <<"r", "e", "t", "u", "r", "n", "_", "t", "y", "p", "e">>) @@
    ("stmt_type" :> <<"s", "t", "m", "t", "_", "t", "y", "p", "e">>) @@
    ("expr_type" :> <<"e", "x", "p", "r", "_", "t", "y", "p", "e">>) @@
    ("value" :> <<"v", "a", "l", "u", "e">>) @@
    ("literal_type" :> <<"l", "i", "t", "e", "r", "a", "l", "_", "t", "y", "p", "e">>) @@
    ("function_name" :> <<"f", "u", "n", "c", "t", "i", "o", "n", "_", "n", "a", "m", "e">>) @@
    ("directive" :> <<"d", "i", "r", "e", "c", "t", "i", "v", "e">>) @@
    ("content" :> <<"c", "o", "n", "t", "e", "n", "t">>) @@
    ("operator" :> <<"o", "p", "e", "r", "a", "t", "o", "r">>) @@
    ("Program" :> <<"P", "r", "o", "g", "r", "a", "m">>) @@
    ("Declaration" :> <<"D", "e", "c", "l", "a", "r", "a", "t", "i", "o", "n">>) @@
    ("Function" :> <<"F", "u", "n", "c", "t", "i", "o", "n">>) @@
    ("Statement" :> <<"S", "t", "a", "t", "e", "m", "e", "n", "t">>) @@
    ("Expression" :> <<"E", "x", "p", "r", "e", "s", "s", "i", "o", "n">>) @@
    ("PreprocessorDirective" :> <<"P", "r", "e", "p", "r", "o", "c", "e", "s", "s", "o", "r", "D", "i", "r", "e", "c", "t", "i", "v", "e">>)

\* CFGGenerator.__init__ (its own lexer field is never used)
CFGGenerator_init ==
    [parser |-> CParser_init, cfg |-> ControlFlowGraph_init, current_node |-> NoNode,
     raised |-> "none"]

Ret(G, ret) == [G |-> G, ret |-> ret]

\* self.cfg.create_node(...)
gen_create(G, node_type, content, kwargs) ==
    [G EXCEPT !.cfg = create_node(G.cfg, node_type, content, kwargs)]

\* a lowering step that leaves the new node unconnected
connect_from_current_skip(G, node_id) == G

\* if self.current_node: self.cfg.connect_nodes(self.current_node.node_id, node_id)
connect_from_current(G, node_id) ==
    IF G.current_node # NoNode
    THEN [G EXCEPT !.cfg = connect_nodes(G.cfg, G.current_node, node_id)]
    ELSE G

\* self.cfg.connect_nodes(from_id, to_id)
gen_connect(G, from_id, to_id) == [G EXCEPT !.cfg = connect_nodes(G.cfg, from_id, to_id)]

\* f'{k}={v}' for one attribute
attr_text(a) == TextOf[a.key] \o S_eq \o PyStr(a.value)

\* ', '.join(f'{k}={v}' for k, v in attributes.items())
RECURSIVE JoinAttrs(_)
JoinAttrs(attributes) ==
    IF attributes = <<>> THEN <<>>
    ELSE IF Len(attributes) = 1 THEN attr_text(Head(attributes))
    ELSE attr_text(Head(attributes)) \o S_comma_ \o JoinAttrs(Tail(attributes))

\* ASTNode.__str__
ASTNode_str(node) == TextOf[node.node_type] \o <<"(">> \o JoinAttrs(node.attributes) \o <<")">>

\* a call node.get_attribute(name, default): get_attribute takes one argument
\* besides self, so the call raises TypeError before anything is looked up
get_attribute_default(node, name, default) == "TypeError"

\* if self.current_node: connect_nodes(current_node.node_id, node.node_id),
\* for the node just created; gives the node
connect_created(G) == Ret(connect_from_current(G, created_id(G.cfg)), created_id(G.cfg))

\* create a node of the given type, connect it from the cursor, give it
\* (the common head of the _process methods)
create_connected(G, node_type, content, kwargs) ==
    connect_created(gen_create(G, node_type, content, kwargs))

\* _process_return_statement returning its END node
return_link_end(G, return_node) ==
    Ret(gen_connect(G, return_node, created_id(G.cfg)), created_id(G.cfg))

\* _process_return_statement: connect_nodes(return_node, end_node); return return_node
return_link(G, return_node) == Ret(gen_connect(G, return_node, created_id(G.cfg)), return_node)

\* _process_return_statement: end_node = create_node("END")
return_end(r) == return_link(gen_create(r.G, "END", <<>>, <<>>), r.ret)

_process_return_statement(G, return_stmt) ==
    return_end(create_connected(G, "RETURN",
                   IF return_stmt.children # <<>> THEN ASTNode_str(return_stmt.children[1])
                   ELSE <<>>, <<>>))

_process_declaration(G, declaration) ==
    create_connected(G, "PROCESS",
        PyStr(get_attribute(declaration, "data_type")) \o <<" ">>
            \o PyStr(get_attribute(declaration, "name")), <<>>)

_process_assignment(G, assignment) ==
    IF get_attribute_default(assignment, "operator", <<"=">>) = "TypeError"
    THEN Ret([G EXCEPT !.raised = "TypeError"], NoNode)
    ELSE create_connected(G, "ASSIGNMENT",
            S_assignment_ \o PyStr(get_attribute(assignment, "operator")), <<>>)

_process_function_call(G, func_call) ==
    create_connected(G, "FUNCTION", PyStr(get_attribute(func_call, "function_name")),
                     <<Attr("is_call", "True")>>)

_process_preprocessor(G, preprocessor) ==
    IF get_attribute_default(preprocessor, "content", <<>>) = "TypeError"
    THEN Ret([G EXCEPT !.raised = "TypeError"], NoNode)
    ELSE create_connected(G, "PROCESS",
            <<"#">> \o PyStr(get_attribute(preprocessor, "directive")) \o <<" ">>
                \o PyStr(get_attribute(preprocessor, "content")), <<>>)

_process_generic_statement(G, node) ==
    create_connected(G, "PROCESS",
        IF node.attributes # <<>> THEN ASTNode_str(node) ELSE TextOf[node.node_type], <<>>)

RECURSIVE _process_ast_node(_, _), _process_children(_, _)

\* self.current_node = <the node a _process_ast_node call returned>, then the
\* rest of the loop over the children
children_next(r, rest) ==
    IF r.G.raised # "none" THEN r.G
    ELSE _process_children([r.G EXCEPT !.current_node = r.ret], rest)

\* for child in children: self.current_node = self._process_ast_node(child)
_process_children(G, children) ==
    IF children = <<>> \/ G.raised # "none" THEN G
    ELSE children_next(_process_ast_node(G, Head(children)), Tail(children))

\* return self.current_node
return_current(G) == Ret(G, G.current_node)

\* self.current_node = <the node just created>
set_current_created(G) == [G EXCEPT !.current_node = created_id(G.cfg)]

\* _process_program: connect the END node just created from the cursor
program_link(G) == Ret(connect_from_current(G, created_id(G.cfg)), G.current_node)

\* _process_program creating its END node whether or not one exists
program_end_always(G) ==
    IF G.raised # "none" THEN Ret(G, NoNode)
    ELSE program_link(gen_create(G, "END", <<>>, <<>>))

\* _process_program after the loop over the children
program_end(G) ==
    IF G.raised # "none" THEN Ret(G, NoNode)
    ELSE IF G.cfg.end_nodes = <<>> THEN program_link(gen_create(G, "END", <<>>, <<>>))
    ELSE return_current(G)

_process_program(G, program) ==
    program_end(_process_children(set_current_created(gen_create(G, "START", <<>>, <<>>)),
                                  program.children))

\* _process_function after the FUNCTION node is created and connected
function_body(r, children) ==
    return_current(_process_children([r.G EXCEPT !.current_node = r.ret], children))

_process_function(G, function) ==
    function_body(create_connected(G, "FUNCTION",
                      PyStr(get_attribute(function, "return_type")) \o <<" ">>
                          \o PyStr(get_attribute(function, "name")) \o S_parens,
                      <<Attr("is_call", "False")>>),
                  function.children)

_process_block(G, block) == return_current(_process_children(G, block.children))

\* the second connection made from the merge node back to the decision node
if_connect_else_back(G, else_node, decision_node) ==
    IF else_node # NoNode /\ else_node # decision_node
    THEN gen_connect(G, else_node, created_id(G.cfg))
    ELSE gen_connect(G, created_id(G.cfg), decision_node)

\* _process_if_statement: the second of the connections to the merge node
if_connect_else(G, else_node, decision_node) ==
    IF else_node # NoNode /\ else_node # decision_node
    THEN gen_connect(G, else_node, created_id(G.cfg))
    ELSE gen_connect(G, decision_node, created_id(G.cfg))

\* _process_if_statement after the merge node is created
if_connect(G, then_node, else_node, decision_node) ==
    Ret(if_connect_else(IF then_node # NoNode
                        THEN gen_connect(G, then_node, created_id(G.cfg)) ELSE G,
                        else_node, decision_node),
        created_id(G.cfg))

\* _process_if_statement after both branches
if_merge(then_node, el, decision_node) ==
    IF el.G.raised # "none" THEN Ret(el.G, NoNode)
    ELSE if_connect(gen_create(el.G, "PROCESS", S_merge, <<>>), then_node, el.ret,
                    decision_node)

\* _process_if_statement after the then branch
if_else(th, decision_node, if_stmt) ==
    if_merge(th.ret,
             IF Len(if_stmt.children) > 2 /\ th.G.raised = "none"
             THEN _process_ast_node([th.G EXCEPT !.current_node = decision_node],
                                    if_stmt.children[3])
             ELSE Ret(th.G, decision_node),
             decision_node)

\* _process_if_statement after the DECISION node is created and connected
if_then(d, if_stmt) ==
    if_else(IF Len(if_stmt.children) > 1
            THEN _process_ast_node([d.G EXCEPT !.current_node = d.ret], if_stmt.children[2])
            ELSE Ret([d.G EXCEPT !.current_node = d.ret], d.ret),
            d.ret, if_stmt)

_process_if_statement(G, if_stmt) ==
    if_then(create_connected(G, "DECISION", S_if_condition, <<>>), if_stmt)

_process_ast_node(G, node) ==
    IF node = None THEN Ret(G, NoNode)
    ELSE CASE node.cls = "Program" -> _process_program(G, node)
           [] node.cls = "Function" -> _process_function(G, node)
           [] node.cls = "Block" -> _process_block(G, node)
           [] node.cls = "IfStatement" -> _process_if_statement(G, node)
           [] node.cls = "ReturnStatement" -> _process_return_statement(G, node)
           [] node.cls = "Declaration" -> _process_declaration(G, node)
           [] node.cls = "AssignmentStatement" -> _process_assignment(G, node)
           [] node.cls = "FunctionCall" -> _process_function_call(G, node)
           [] node.cls = "PreprocessorDirective" -> _process_preprocessor(G, node)
           [] OTHER -> _process_generic_statement(G, node)

NoGraph == ControlFlowGraph_init

\* the exception handler giving self.cfg as it stands
generate_result_partial(r) ==
    [G |-> [r.G EXCEPT !.raised = "none"],
     result |-> [kind |-> "graph", cfg |-> r.G.cfg, fault |-> r.G.raised]]

\* generate_cfg after _process_ast_node: return self.cfg, or None from the
\* exception handler
generate_result(r) ==
    IF r.G.raised # "none"
    THEN [G |-> [r.G EXCEPT !.raised = "none"],
          result |-> [kind |-> "None", cfg |-> NoGraph, fault |-> r.G.raised]]
    ELSE [G |-> r.G, result |-> [kind |-> "graph", cfg |-> r.G.cfg, fault |-> "none"]]

\* generate_cfg after self.parser.parse(code): self.cfg = ControlFlowGraph(),
\* then the lowering of the AST
generate_from(G, S) ==
    IF S.pc # "done"
    THEN [G |-> [G EXCEPT !.parser = S.P],
          result |-> [kind |-> "hang", cfg |-> NoGraph, fault |-> "none"]]
    ELSE generate_result(
             _process_ast_node([G EXCEPT !.parser = S.P, !.cfg = ControlFlowGraph_init,
                                         !.raised = "none"], S.program))

\* CFGGenerator.generate_cfg: [G, result].  result.kind is "graph" (the cfg
\* returned), "None" (an exception was caught, fault names it) or "hang"
\* (parse never returns)
generate_cfg(G, code) == generate_from(G, parse(G.parser, code))

(***************************************************************************)
(* Test sources.  A source is described by a record d: an optional         *)
(* #include line, the text between the parentheses of the header of one    *)
(* function "int f(...)", and the statements of its body by name; or, when *)
(* d.literal is set, the text d.fixed as it stands.  Render(d) is the     *)
(* C text handed to the pipeline.  What a statement form is in C (an       *)
(* if/else, the number of its return statements) is stated here, from its  *)
(* text, and not taken from the parser.                                    *)
(***************************************************************************)
\* the statement forms of the test sources, by name, with their C text
StmtText ==
    ("E" :> <<"y", ";">>) @@
    ("C" :> <<"f", "(", "1", ")", ";">>) @@
    ("D" :> <<"i", "n", "t", " ", "x", " ", "=", " ", "5", ";">>) @@
    ("R0" :> <<"r", "e", "t", "u", "r", "n", ";">>) @@
    ("R1" :> <<"r", "e", "t", "u", "r", "n", " ", "1", ";">>) @@
    ("RS" :> <<"r", "e", "t", "u", "r", "n", " ", "a", "+", "1", ";">>) @@
    ("IfE" :> <<"i", "f", " ", "(", "x", ")", " ", "y", ";">>) @@
    ("IfEE" :> <<"i", "f", " ", "(", "x", ")", " ", "y", ";", " ", "e", "l", "s", "e", " ", "z", ";">>) @@
    ("IfEEb" :> <<"i", "f", " ", "(", "x", ")", " ", "{", " ", "y", ";", " ", "}", " ", "e", "l", "s", "e", " ", "{", " ", "z", ";", " ", "}">>) @@
    ("IfRel" :> <<"i", "f", " ", "(", "x", " ", ">", " ", "0", ")", " ", "y", ";", " ", "e", "l", "s", "e", " ", "z", ";">>) @@
    ("IfRR" :> <<"i", "f", " ", "(", "x", ")", " ", "r", "e", "t", "u", "r", "n", " ", "1", ";", " ", "e", "l", "s", "e", " ", "r", "e", "t", "u", "r", "n", " ", "2", ";">>) @@
    ("IfRRb" :> <<"i", "f", " ", "(", "x", ")", " ", "{", " ", "r", "e", "t", "u", "r", "n", " ", "1", ";", " ", "}", " ", "e", "l", "s", "e", " ", "{", " ", "r", "e", "t", "u", "r", "n", " ", "2", ";", " ", "}">>) @@
    ("IfR" :> <<"i", "f", " ", "(", "x", ")", " ", "r", "e", "t", "u", "r", "n", " ", "1", ";">>) @@
    ("IfSE" :> <<"i", "f", " ", "(", "x", ")", " ", ";", " ", "e", "l", "s", "e", " ", "z", ";">>) @@
    ("IfIf" :> <<"i", "f", " ", "(", "x", ")", " ", "i", "f", " ", "(", "y", ")", " ", "z", ";", " ", "e", "l", "s", "e", " ", "w", ";">>)

C8Source == <<"i", "n", "t", " ", "m", "a", "i", "n", "(", ")", "{", " ", "i", "n", "t", " ", "x", " ", "=", " ", "5", ";", " ", "i", "f", " ", "(", "x", " ", ">", " ", "0", ")", " ", "{", " ", "p", "r", "i", "n", "t", "f", "(", "\"", "p", "\"", ")", ";", " ", "}", " ", "r", "e", "t", "u", "r", "n", " ", "0", ";", " ", "}">>
S_include == <<"#", "i", "n", "c", "l", "u", "d", "e", " ", "<", "a", ".", "h", ">", "\n">>
S_int_f == <<"i", "n", "t", " ", "f", "(">>
S_body_open == <<")", "{">>
S_body_close == <<" ", "}">>

StmtNames == DOMAIN StmtText

\* statement forms that are an if with an else branch
IfElseForms == {"IfEE", "IfEEb", "IfRel", "IfRR", "IfRRb", "IfIf", "IfSE"}
\* statement forms that are an if without an else branch
IfOnlyForms == {"IfE", "IfR"}
\* the number of if keywords and of return statements in a statement form
IfCountOf(name) == IF name = "IfIf" THEN 2 ELSE IF name \in IfElseForms \cup IfOnlyForms THEN 1 ELSE 0
ReturnCountOf(name) ==
    CASE name \in {"R0", "R1", "RS", "IfR"} -> 1
      [] name \in {"IfRR", "IfRRb"} -> 2
      [] OTHER -> 0

Desc(pre, params, body) ==
    [literal |-> FALSE, fixed |-> <<>>, pre |-> pre, params |-> params, body |-> body]
Fixed(text) ==
    [literal |-> TRUE, fixed |-> text, pre |-> FALSE, params |-> <<>>, body |-> <<>>]

RECURSIVE RenderBody(_)
RenderBody(body) ==
    IF body = <<>> THEN <<>> ELSE <<" ">> \o StmtText[Head(body)] \o RenderBody(Tail(body))

Render(d) ==
    IF d.literal THEN d.fixed
    ELSE (IF d.pre THEN S_include ELSE <<>>) \o S_int_f \o d.params \o S_body_open
         \o RenderBody(d.body) \o S_body_close

RECURSIVE IfCount(_)
IfCount(body) == IF body = <<>> THEN 0 ELSE IfCountOf(Head(body)) + IfCount(Tail(body))

RECURSIVE ReturnCount(_)
ReturnCount(body) ==
    IF body = <<>> THEN 0 ELSE ReturnCountOf(Head(body)) + ReturnCount(Tail(body))

\* d is one function whose body holds exactly one if statement, which has an
\* else branch, and no return statement
OneIfElseNoReturn(d) ==
    /\ ~d.literal /\ ~d.pre
    /\ IfCount(d.body) = 1
    /\ \E i \in DOMAIN d.body : d.body[i] \in IfElseForms
    /\ ReturnCount(d.body) = 0

\* d is a function whose body holds exactly two return statements
TwoReturns(d) == ~d.literal /\ ReturnCount(d.body) = 2

ReturnForms == {"R0", "R1", "RS"}
LeadForms == {"E", "C", "D"}

\* the bodies of the test functions
Bodies ==
    {<<>>} \cup { <<s>> : s \in StmtNames }
           \cup { <<s, t>> : s \in ReturnForms, t \in ReturnForms }
           \cup { <<s, t>> : s \in LeadForms, t \in IfElseForms \cup IfOnlyForms }
           \cup { <<s, "R1">> : s \in IfElseForms \cup IfOnlyForms }
           \cup { <<"IfR", "IfR">>, <<"R1", "E">>, <<"D", "E">> }

\* the parameter texts: none, two parameters, and texts that are not a
\* parameter list
ParamTexts == { <<>>, <<"i","n","t"," ","a",","," ","i","n","t"," ","b">>, <<"x">>, <<"5">>,
                <<"i","n","t",",">> }

Descs ==
    { Desc(FALSE, <<>>, b) : b \in Bodies }
    \cup { Desc(TRUE, <<>>, b) : b \in { <<>>, <<"E">>, <<"IfEE">>, <<"R1", "R1">> } }
    \cup { Desc(FALSE, p, <<"E">>) : p \in ParamTexts }
    \cup { Fixed(C8Source),
           Fixed(<<"i","n","t"," ","f","(",")",";"," ","v","o","i","d"," ","g","(","i","n","t"," ","a",")","{"," ","}"," ","x"," ","c","h","a","r">>),
           Fixed(<<"i","n","t"," ","f","(","(",")","{"," ","}",";"," ","i","n","t"," ","a","(","b",")"," ","c",";"," ","f","l","o","a","t"," ","h","(","(",")",")","{"," ","}">>),
           Fixed(<<"i","n","t"," ","a",";"," ","f","l","o","a","t"," ","b"," ","="," ","a"," ","+"," ","1",";"," ","c","h","a","r"," ","c"," ","="," ","'",";","'",";"," ","i","n","t"," ","d"," ","="," ",";"," ","x">>),
           Fixed(<<>>), Fixed(<<" ">>), Fixed(<<"@", "\n", " ">>),
           Fixed(<<"i","n","t"," ","a"," ","="," ","5",";","\n","x"," ","}","\n">>),
           Fixed(<<"i","n","t"," ","*","f","(",")","{","y",";","}">>),
           Fixed(<<"i","n","t"," ","f","(",")","{","i","f","(","x",")","\n","y",";">>),
           Fixed(<<"#","d","e","f","i","n","e"," ","i","n","t"," ","f","(",")",";">>) }

\* the sources a second or later call on an instance is made with, besides
\* the source of the first call
RepeatDescs ==
    { Desc(FALSE, <<>>, <<"D", "IfEE">>), Desc(TRUE, <<>>, <<"E">>),
      Fixed(<<"i","n","t"," ","a"," ","="," ","5",";","\n","x"," ","}","\n">>),
      Fixed(<<>>), Fixed(<<" ">>) }

(***************************************************************************)
(* SpecLex: tokenize calls on one CLexer instance, one scanner step at a   *)
(* time                                                                    *)
(***************************************************************************)
MaxLexLen == 2
MaxLexCalls == 2
LexAlphabet == {"a", "+", "=", " ", "\n", "@", "\""}

\* sources that exercise the longer rules
FixedLexSources ==
    { <<"i","n","t"," ","a"," ","="," ","5",";">>,
      <<"#","i","n","c","l","u","d","e"," ","<","a",".","h",">">>,
      <<"1",".","5","e","+","3","f"," ","0","0","7">>,
      <<"/","*","a","\n","*","/","x","/","/","y","\n","z">>,
      <<"'","\\","'","'"," ","\"","a","\n","b","\""," ","$","x">>,
      <<"a","-",">","b","<","<","=","<","a",".","h",">">>,
      <<"i","f"," ","i","f","f"," ","I","f"," ","_","i","f"," ","d","o","1"," ","1","d","o">>,
      <<"a","+","=","b","-","=","c","*","=","d","/","=","e","%","=","f","+","+"," ","-","-","g","<","<","h",">",">","i","=","=","j","!","=","k","<","=","l",">","=","m","&","&","n","|","|","o","-",">","p">>,
      <<"+","+","+"," ","-","-",">"," ","<","<","="," ",">",">","="," ","=","=","="," ","|","|","|"," ","<","=",">"," ","!","=","="," ","<","a",".","h",">",">"," ","-","=","-">> }

LexSources == FixedLexSources \cup UNION { [1..n -> LexAlphabet] : n \in 0..MaxLexLen }

NoStep == [kind |-> "none", consumed |-> 0]

NoIter == [loop |-> "none", consumed |-> 0]
NoDesc == Fixed(<<>>)
NoResult == [kind |-> "none", cfg |-> NoGraph, fault |-> "none"]
NoCall == [desc |-> NoDesc, result |-> NoResult]

\* a CParser on which parse has not been called
ParseIdle ==
    [P |-> CParser_init, pc |-> "idle", program |-> Program, top |-> 0,
     func_name |-> NoneVal, return_type |-> NoneVal, parameters |-> <<>>, statements |-> <<>>]

\* the state after construction: a new CLexer, a new CParser, a new
\* ControlFlowGraph and a new CFGGenerator, no call made on any of them
Init ==
    /\ lexer = CLexer_init /\ lexpc = "idle" /\ lexcalls = 0
    /\ lexlast = NoStep /\ lexlog = <<>>
    /\ pstate = ParseIdle /\ pcalls = 0 /\ plast = NoIter
    /\ cfg = ControlFlowGraph_init /\ cfgcreated = 0 /\ cfgops = 0
    /\ generator = CFGGenerator_init /\ genpc = "idle" /\ gencalls = 0
    /\ genfirst = NoCall /\ genlast = NoCall

\* tokenize(code) is called on the fresh instance
TokenizeCall ==
    /\ lexpc = "idle"
    /\ \E code \in LexSources : lexer' = tokenize_begin(lexer, code)
    /\ lexpc' = "scan"
    /\ lexcalls' = lexcalls + 1
    /\ lexlast' = NoStep
    /\ UNCHANGED <<lexlog, parsevars, graphvars, genvars>>

\* tokenize is called again on the used instance with the same source
\* (LexerHandler.analyze_code: tokenize, then get_formatted_output)
TokenizeAgain ==
    /\ lexpc = "done" /\ lexcalls < MaxLexCalls
    /\ lexer' = tokenize_begin(lexer, lexer.lexdata)
    /\ lexpc' = "scan"
    /\ lexcalls' = lexcalls + 1
    /\ lexlast' = NoStep
    /\ UNCHANGED <<lexlog, parsevars, graphvars, genvars>>

ScanIgnore ==
    /\ lexpc = "scan" /\ StepKind(lexer) = "ignore"
    /\ lexer' = t_skip_ignored(lexer)
    /\ lexlast' = [kind |-> "ignore", consumed |-> lexer'.lexpos - lexer.lexpos]
    /\ UNCHANGED <<lexpc, lexcalls, lexlog, parsevars, graphvars, genvars>>

ScanMatch ==
    /\ lexpc = "scan" /\ StepKind(lexer) = "match"
    /\ lexer' = t_match(lexer, MasterMatch(lexer.lexdata, lexer.lexpos))
    /\ lexlast' = [kind |-> "match", consumed |-> lexer'.lexpos - lexer.lexpos]
    /\ UNCHANGED <<lexpc, lexcalls, lexlog, parsevars, graphvars, genvars>>

ScanError ==
    /\ lexpc = "scan" /\ StepKind(lexer) = "error"
    /\ lexer' = t_error(lexer)
    /\ lexlast' = [kind |-> "error", consumed |-> lexer'.lexpos - lexer.lexpos]
    /\ UNCHANGED <<lexpc, lexcalls, lexlog, parsevars, graphvars, genvars>>

\* the scanner is out of input (tokenize returns tokens_list) or has raised
ScanEnd ==
    /\ lexpc = "scan" /\ StepKind(lexer) \in {"eof", "raised"}
    /\ lexpc' = IF StepKind(lexer) = "eof" THEN "done" ELSE "failed"
    /\ lexlog' = IF StepKind(lexer) = "eof" THEN Append(lexlog, lexer.tokens_list) ELSE lexlog
    /\ lexlast' = NoStep
    /\ UNCHANGED <<lexer, lexcalls, parsevars, graphvars, genvars>>

NextLex == TokenizeCall \/ TokenizeAgain \/ ScanIgnore \/ ScanMatch \/ ScanError \/ ScanEnd

SpecLex == Init /\ [][NextLex]_vars
\* a tokenize call that has started runs on: the scanner loop is sequential code
SpecLexLive == SpecLex /\ WF_vars(ScanIgnore \/ ScanMatch \/ ScanError \/ ScanEnd)

(***************************************************************************)
(* SpecParse: parse calls on one CParser instance, one iteration of the    *)
(* loops of parse_program, parse_function and parse_block at a time.       *)
(* plast records the loop whose iteration has just finished and the number *)
(* of tokens the iteration moved the cursor by.                            *)
(***************************************************************************)
MaxParseCalls == 2

Cursor(S) == S.P.current_token_index

Iter(loop, consumed) == [loop |-> loop, consumed |-> consumed]

\* parse(code) is called: on the new instance with any source, on a used
\* instance with one of the repeat sources
ParseCall ==
    /\ pstate.pc \in {"idle", "done"} /\ pcalls < MaxParseCalls
    /\ \E d \in IF pcalls = 0 THEN Descs ELSE RepeatDescs :
          pstate' = parse_begin(pstate.P, Render(d))
    /\ pcalls' = pcalls + 1
    /\ plast' = NoIter
    /\ UNCHANGED <<lexvars, graphvars, genvars>>

ProgramPreprocessor ==
    /\ ParseKind(pstate) = "program_preprocessor"
    /\ pstate' = program_preprocessor(pstate)
    /\ plast' = Iter("program", Cursor(pstate') - Cursor(pstate))
    /\ UNCHANGED <<pcalls, lexvars, graphvars, genvars>>

ProgramDeclaration ==
    /\ ParseKind(pstate) = "program_declaration"
    /\ pstate' = program_declaration(pstate)
    /\ plast' = Iter("program", Cursor(pstate') - Cursor(pstate))
    /\ UNCHANGED <<pcalls, lexvars, graphvars, genvars>>

ProgramSkip ==
    /\ ParseKind(pstate) = "program_skip"
    /\ pstate' = program_skip(pstate)
    /\ plast' = Iter("program", Cursor(pstate') - Cursor(pstate))
    /\ UNCHANGED <<pcalls, lexvars, graphvars, genvars>>

\* parse_function is entered; when it returns before its parameter loop the
\* top-level iteration is over
FunctionHead ==
    /\ ParseKind(pstate) = "function_head"
    /\ pstate' = function_head(pstate)
    /\ plast' = IF pstate'.pc = "params" THEN NoIter
                ELSE Iter("program", Cursor(pstate') - Cursor(pstate))
    /\ UNCHANGED <<pcalls, lexvars, graphvars, genvars>>

ParamIter ==
    /\ ParseKind(pstate) = "param_iter"
    /\ pstate' = param_iter(pstate)
    /\ plast' = Iter("params", Cursor(pstate') - Cursor(pstate))
    /\ UNCHANGED <<pcalls, lexvars, graphvars, genvars>>

\* the parameter loop is left; unless parse_block is entered the top-level
\* iteration is over
ParamsDone ==
    /\ ParseKind(pstate) = "function_after_params"
    /\ pstate' = function_after_params(pstate)
    /\ plast' = IF pstate'.pc = "block" THEN NoIter
                ELSE Iter("program", Cursor(pstate') - pstate.top)
    /\ UNCHANGED <<pcalls, lexvars, graphvars, genvars>>

BlockIter ==
    /\ ParseKind(pstate) = "block_iter"
    /\ pstate' = block_iter(pstate)
    /\ plast' = Iter("block", Cursor(pstate') - Cursor(pstate))
    /\ UNCHANGED <<pcalls, lexvars, graphvars, genvars>>

\* the block loop is left and parse_function returns: the top-level iteration
\* is over
BlockDone ==
    /\ ParseKind(pstate) = "block_done"
    /\ pstate' = block_done(pstate)
    /\ plast' = Iter("program", Cursor(pstate') - pstate.top)
    /\ UNCHANGED <<pcalls, lexvars, graphvars, genvars>>

\* parse_program returns the Program
ProgramDone ==
    /\ ParseKind(pstate) = "program_done"
    /\ pstate' = program_done(pstate)
    /\ plast' = NoIter
    /\ UNCHANGED <<pcalls, lexvars, graphvars, genvars>>

NextParse ==
    \/ ParseCall \/ ProgramPreprocessor \/ ProgramDeclaration \/ ProgramSkip
    \/ FunctionHead \/ ParamIter \/ ParamsDone \/ BlockIter \/ BlockDone \/ ProgramDone

SpecParse == Init /\ [][NextParse]_vars

(***************************************************************************)
(* SpecGraph: a client's calls on one ControlFlowGraph and on its nodes.   *)
(* The graph is a new one, or one returned by generate_cfg.                *)
(***************************************************************************)
MaxGraphCreates == 2
MaxGraphOps == 3

\* node types the client creates: two the graph keeps track of, one plain
\* subclass and one name create_node does not know
GraphNodeTypes == {"START", "END", "PROCESS", "CUSTOM"}
GraphContent == <<"c">>

\* the sources of the generated graphs the client works on
GraphDescs ==
    { Fixed(<<" ">>), Desc(FALSE, <<>>, <<"E">>), Desc(FALSE, <<>>, <<"IfEE">>),
      Desc(FALSE, <<>>, <<"R1", "R1">>) }

NodeIds(g) == { g.nodes[i].node_id : i \in DOMAIN g.nodes }

\* an id no node of g has
UnknownId(g) == make_node_id(g.node_counter + 1)

\* the client takes the graph generate_cfg returns for a source
GraphFromGenerate ==
    /\ cfgops = 0 /\ cfg = ControlFlowGraph_init
    /\ \E d \in GraphDescs :
          \E r \in {generate_cfg(CFGGenerator_init, Render(d))} :
              /\ r.result.kind = "graph"
              /\ cfg' = r.result.cfg
    /\ cfgops' = 1
    /\ UNCHANGED <<cfgcreated, lexvars, parsevars, genvars>>

CreateNode ==
    /\ cfgops < MaxGraphOps /\ cfgcreated < MaxGraphCreates
    /\ \E node_type \in GraphNodeTypes : cfg' = create_node(cfg, node_type, GraphContent, <<>>)
    /\ cfgcreated' = cfgcreated + 1
    /\ cfgops' = cfgops + 1
    /\ UNCHANGED <<lexvars, parsevars, genvars>>

\* connect_nodes with ids of the graph or with an id it does not hold
ConnectNodes ==
    /\ cfgops < MaxGraphOps
    /\ \E from_node_id, to_node_id \in NodeIds(cfg) \cup {UnknownId(cfg)} :
          cfg' = connect_nodes(cfg, from_node_id, to_node_id)
    /\ cfgops' = cfgops + 1
    /\ UNCHANGED <<cfgcreated, lexvars, parsevars, genvars>>

\* node.add_successor(other) for two nodes of the graph
AddSuccessor ==
    /\ cfgops < MaxGraphOps
    /\ \E self, node \in NodeIds(cfg) : cfg' = add_successor(cfg, self, node)
    /\ cfgops' = cfgops + 1
    /\ UNCHANGED <<cfgcreated, lexvars, parsevars, genvars>>

\* node.add_predecessor(other) for two nodes of the graph
AddPredecessor ==
    /\ cfgops < MaxGraphOps
    /\ \E self, node \in NodeIds(cfg) : cfg' = add_predecessor(cfg, self, node)
    /\ cfgops' = cfgops + 1
    /\ UNCHANGED <<cfgcreated, lexvars, parsevars, genvars>>

NextGraph == GraphFromGenerate \/ CreateNode \/ ConnectNodes \/ AddSuccessor \/ AddPredecessor

SpecGraph == Init /\ [][NextGraph]_vars

(***************************************************************************)
(* Spec: generate_cfg calls on CFGGenerator instances.  A call is one      *)
(* step.  genfirst keeps the source and the result of the first call,      *)
(* genlast those of the last one; a call that does not return leaves       *)
(* genpc at "hung".                                                        *)
(***************************************************************************)
MaxGenCalls == 3

Call(d, result) == [desc |-> d, result |-> result]

\* the sources of the next call: any source for the first call, afterwards
\* the source of the first call or one of the repeat sources
NextDescs == IF genfirst = NoCall THEN Descs ELSE RepeatDescs \cup {genfirst.desc}

\* generate_cfg(code) is called on the instance
GenerateCfg ==
    /\ genpc \in {"idle", "returned"} /\ gencalls < MaxGenCalls
    /\ \E d \in NextDescs :
          \E r \in {generate_cfg(generator, Render(d))} :
              /\ generator' = r.G
              /\ genlast' = Call(d, r.result)
              /\ genfirst' = IF genfirst = NoCall THEN Call(d, r.result) ELSE genfirst
              /\ genpc' = IF r.result.kind = "hang" THEN "hung" ELSE "returned"
    /\ gencalls' = gencalls + 1
    /\ UNCHANGED <<lexvars, parsevars, graphvars>>

\* the client goes on with a new CFGGenerator()
NewInstance ==
    /\ genpc = "returned" /\ gencalls < MaxGenCalls
    /\ generator' = CFGGenerator_init
    /\ genpc' = "idle"
    /\ UNCHANGED <<gencalls, genfirst, genlast, lexvars, parsevars, graphvars>>

Next == GenerateCfg \/ NewInstance

Spec == Init /\ [][Next]_vars

(***************************************************************************)
(* Properties of the graph API (SpecGraph)                                 *)
(***************************************************************************)
\* C3: in the graph under test, after any sequence of create_node,
\* connect_nodes, add_successor and add_predecessor calls, b is in
\* a.successors if and only if a is in b.predecessors, for all nodes a and b
C3_EdgeSymmetry ==
    \A i, j \in DOMAIN cfg.nodes :
        InSeq(cfg.nodes[j].node_id, cfg.nodes[i].successors)
            <=> InSeq(cfg.nodes[i].node_id, cfg.nodes[j].predecessors)

\* the client has added a node to a generated graph and made it its own
\* successor and predecessor
C3_Witness ==
    /\ cfgcreated = 1 /\ cfg.node_counter > 3
    /\ InSeq(created_id(cfg), get_node(cfg, created_id(cfg)).successors)
    /\ InSeq(created_id(cfg), get_node(cfg, created_id(cfg)).predecessors)

\* C4: every id in a pair of get_edges() is the id of a node in
\* get_all_nodes(), for a graph returned by generate_cfg and after any
\* sequence of create_node and connect_nodes calls
C4_EdgesAmongNodes ==
    \A k \in DOMAIN get_edges(cfg) :
        \A e \in 1..2 :
            \E i \in DOMAIN get_all_nodes(cfg) :
                get_all_nodes(cfg)[i].node_id = get_edges(cfg)[k][e]

\* a generated graph to which the client has added a node and an edge that
\* ends in it
C4_Witness ==
    /\ cfgcreated = 1 /\ cfg.node_counter > 3
    /\ \E k \in DOMAIN get_edges(cfg) : get_edges(cfg)[k][2] = created_id(cfg)

\* no two nodes of the graph share an id, and the nodes are as many as the
\* counter says
C5_UniqueIds ==
    /\ Len(cfg.nodes) = cfg.node_counter
    /\ \A i, j \in DOMAIN cfg.nodes : cfg.nodes[i].node_id = cfg.nodes[j].node_id => i = j

\* a create_node call of the client raises the counter by one, adds the node
\* node_<counter> and leaves the nodes the graph held in their places
C5_CreateStep ==
    cfgcreated' = cfgcreated + 1 =>
        /\ cfg'.node_counter = cfg.node_counter + 1
        /\ Len(cfg'.nodes) = Len(cfg.nodes) + 1
        /\ cfg'.nodes[Len(cfg'.nodes)].node_id = S_node_ \o IntToStr(cfg.node_counter + 1)
        /\ \A i \in DOMAIN cfg.nodes :
              /\ cfg'.nodes[i].node_id = cfg.nodes[i].node_id
              /\ cfg'.nodes[i].node_type = cfg.nodes[i].node_type
              /\ cfg'.nodes[i].content = cfg.nodes[i].content
              /\ cfg'.nodes[i].node_id # cfg'.nodes[Len(cfg'.nodes)].node_id

\* C5: within one graph the id counter only increases, each create_node call
\* yields the id node_<n> with n one greater than the call before, no two
\* nodes ever share an id and no node is overwritten
C5_IdsConsecutiveUnique ==
    /\ []C5_UniqueIds
    /\ [][cfg'.node_counter >= cfg.node_counter /\ C5_CreateStep]_vars

\* the client has created two nodes in a graph that held nodes already
C5_Witness ==
    /\ cfgcreated = 2 /\ Len(cfg.nodes) >= 5
    /\ cfg.nodes[Len(cfg.nodes)].node_id = make_node_id(Len(cfg.nodes))

(***************************************************************************)
(* Properties of CParser.parse (SpecParse)                                 *)
(***************************************************************************)
\* C1: every iteration of the top-level loop, of the block loop and of the
\* parameter-list loop of a parse call consumes at least one token
C1_EveryIterationConsumes == plast.loop # "none" => plast.consumed >= 1

(***************************************************************************)
(* Properties of CFGGenerator.generate_cfg (Spec)                          *)
(***************************************************************************)
\* C2: a generate_cfg call that returns gives a graph or null; it gives null
\* exactly when parsing or a lowering step raised, and then no graph, not
\* even the one built up to the fault
C2_GraphOrNull ==
    genpc = "returned" =>
        /\ genlast.result.kind \in {"graph", "None"}
        /\ genlast.result.fault # "none" <=> genlast.result.kind = "None"
        /\ genlast.result.kind = "None" => genlast.result.cfg = NoGraph

\* a call in which a lowering step raised after nodes had been created: the
\* instance holds the graph built so far, the call returned null
C2_Witness ==
    /\ genpc = "returned"
    /\ genlast.result.kind = "None" /\ genlast.result.fault = "TypeError"
    /\ generator.cfg.nodes # <<>>

\* the graph the last call returned
LastGraph == genlast.result.cfg

NodesOfType(g, node_type) == { i \in DOMAIN g.nodes : g.nodes[i].node_type = node_type }

\* the ids of the nodes reached from the node id over successor edges, id
\* included, in at most n steps
RECURSIVE ReachIn(_, _, _)
ReachIn(g, ids, n) ==
    IF n = 0 THEN ids
    ELSE ReachIn(g, ids \cup { s \in NodeIds(g) : \E a \in ids : InSeq(s, get_node(g, a).successors) },
                 n - 1)

ReachFrom(g, id) == ReachIn(g, {id}, Len(g.nodes))

\* g has exactly one DECISION node, it has exactly two successors, and some
\* PROCESS node has a predecessor among the nodes of either branch
IfElseShape(g) ==
    /\ Cardinality(NodesOfType(g, "DECISION")) = 1
    /\ \A i \in NodesOfType(g, "DECISION") :
          /\ Len(g.nodes[i].successors) = 2
          /\ \E m \in NodesOfType(g, "PROCESS") :
                \A b \in 1..2 :
                    \E p \in DOMAIN g.nodes[m].predecessors :
                        g.nodes[m].predecessors[p] \in ReachFrom(g, g.nodes[i].successors[b])
                        /\ g.nodes[m].node_id # g.nodes[i].successors[b]

\* C6: for a source of one function whose body holds exactly one if/else and
\* no return, generate_cfg returns a graph with exactly one DECISION node,
\* which has exactly two successors, and both branch exits are predecessors
\* of one common PROCESS merge node
C6_OneIfElse ==
    (genpc = "returned" /\ OneIfElseNoReturn(genlast.desc)) =>
        /\ genlast.result.kind = "graph"
        /\ IfElseShape(LastGraph)

\* C7: for a source of a function whose body holds two return statements,
\* generate_cfg returns a graph with at least two END nodes
C7_TwoReturnsTwoEnds ==
    (genpc = "returned" /\ TwoReturns(genlast.desc) /\ ~genlast.desc.pre
        /\ genlast.desc.params = <<>>) =>
        /\ genlast.result.kind = "graph"
        /\ Cardinality(NodesOfType(LastGraph, "END")) >= 2

C8Types == <<"START", "FUNCTION", "PROCESS", "DECISION", "FUNCTION", "PROCESS", "RETURN", "END">>

\* C8: for the source C8Source generate_cfg returns a graph whose nodes, in
\* creation order, are START, FUNCTION, PROCESS, DECISION, FUNCTION (the
\* call, a successor of the DECISION), PROCESS, RETURN, END, each a
\* successor of the one before
C8_MainChain ==
    (genpc = "returned" /\ genlast.desc = Fixed(C8Source)) =>
        /\ genlast.result.kind = "graph"
        /\ Len(LastGraph.nodes) = Len(C8Types)
        /\ \A i \in DOMAIN LastGraph.nodes : LastGraph.nodes[i].node_type = C8Types[i]
        /\ \A i \in 1..(Len(LastGraph.nodes) - 1) :
              InSeq(LastGraph.nodes[i + 1].node_id, LastGraph.nodes[i].successors)

\* C9: a generate_cfg call with the source of the first call returns what the
\* first call returned (the same node ids, types, contents and successor
\* lists), on the same instance or on a new one, whatever calls came between
C9_Deterministic ==
    (genpc = "returned" /\ genlast.desc = genfirst.desc) => genlast.result = genfirst.result

\* the third call repeats the source of the first on an instance whose line
\* counter a call with another source has moved, and a graph with an if
\* comes back
C9_Witness ==
    /\ genpc = "returned" /\ gencalls = 3
    /\ genlast.desc = genfirst.desc /\ ~genlast.desc.literal /\ ~genlast.desc.pre
    /\ generator.parser.lexer.lineno > 1
    /\ genlast.result.kind = "graph"
    /\ NodesOfType(LastGraph, "DECISION") # {}

(***************************************************************************)
(* Properties of CLexer.tokenize (SpecLexLive)                             *)
(***************************************************************************)
\* no fault is raised, a rule match consumes at least one character, and an
\* illegal character is reported with the cursor moved on by exactly one
C10_Step ==
    /\ lexer.raised = "none" /\ lexpc # "failed"
    /\ lexer.lexpos <= Len(lexer.lexdata)
    /\ lexlast.kind \in {"match", "ignore"} => lexlast.consumed >= 1
    /\ lexlast.kind = "error" =>
          /\ lexlast.consumed = 1
          /\ lexer.printed # <<>>
          /\ lexer.printed[Len(lexer.printed)].char = At(lexer.lexdata, lexer.lexpos - 1)

Ordered(toks) ==
    \A i \in 1..(Len(toks) - 1) :
        /\ toks[i].line <= toks[i + 1].line
        /\ toks[i].position < toks[i + 1].position

\* C11: in the token list of every tokenize call (the list being built and
\* every list returned, on a new or a used instance) line numbers are
\* non-decreasing and positions strictly increasing from one token to the next
C11_TokensOrdered ==
    /\ Ordered(lexer.tokens_list)
    /\ \A k \in 1..Len(lexlog) : Ordered(lexlog[k])

\* a call has returned a list whose tokens lie on more than one line
C11_Witness ==
    /\ lexpc = "done" /\ lexlog # <<>>
    /\ LET toks == lexlog[Len(lexlog)]
       IN  /\ Len(toks) >= 3
           /\ toks[1].line < toks[Len(toks)].line


\* the token lies where its position says: source text of string-valued
\* tokens is the text at that offset
AtOffset(code, t) ==
    t.value.k = "str" => Slice(code, t.position, t.position + Len(t.value.s)) = t.value.s

\* 1 plus the number of newline characters of the source before the offset
LineOfOffset(code, p) == 1 + CountNewlines(Slice(code, 0, p))

\* C12: on a new instance every token of tokenize(source) has position equal
\* to the offset of its first character and line equal to 1 plus the number of
\* newlines of the source before that offset, newlines inside earlier block
\* comments, string literals and char literals included
C12_LineAndOffset ==
    lexcalls = 1 =>
        \A i \in 1..Len(lexer.tokens_list) :
            LET t == lexer.tokens_list[i]
            IN  /\ t.position \in 0..(Len(lexer.lexdata) - 1)
                /\ AtOffset(lexer.lexdata, t)
                /\ t.line = LineOfOffset(lexer.lexdata, t.position)


\* C13: tokenize is a function of its source alone: every call on an
\* instance, the first one and every later one with the same source, returns
\* the token sequence (type, value, line, position) that a call on a new
\* instance returns
C13_TokenizePure ==
    \A k \in 1..Len(lexlog) :
        /\ lexlog[k] = lexlog[1]
        /\ lexlog[k] = tokenize(CLexer_init, lexer.lexdata).tokens_list


\* the token types of the reserved words
KeywordTypes == { reserved[w] : w \in DOMAIN reserved }

\* the text is the longest identifier-shaped run of the code at offset p
IdentifierRun(code, p, text) ==
    /\ text # <<>> /\ text = Slice(code, p, p + Len(text))
    /\ text[1] \in IdentStart
    /\ \A i \in 1..Len(text) : text[i] \in IdentChar
    /\ At(code, p + Len(text)) \notin IdentChar

S_int_a_5 == <<"i","n","t"," ","a"," ","="," ","5",";">>

\* C14: a token that starts at a letter or underscore is the longest
\* identifier-shaped run there; its type is the keyword type if and only if
\* the run equals a reserved word exactly, otherwise IDENTIFIER; no other
\* token has such a type; and tokenize("int a = 5;") returns exactly INT,
\* IDENTIFIER(a), ASSIGN, INTEGER_LITERAL(5), SEMICOLON
C14_KeywordIffReserved ==
    /\ \A i \in 1..Len(lexer.tokens_list) :
          LET t == lexer.tokens_list[i]
          IN  IF At(lexer.lexdata, t.position) \in IdentStart
              THEN /\ t.value.k = "str"
                   /\ IdentifierRun(lexer.lexdata, t.position, t.value.s)
                   /\ t.value.s \in DOMAIN reserved => t.type = reserved[t.value.s]
                   /\ t.value.s \notin DOMAIN reserved => t.type = "IDENTIFIER"
              ELSE t.type \notin KeywordTypes \cup {"IDENTIFIER"}
    /\ (lexpc = "done" /\ lexer.lexdata = S_int_a_5) =>
          /\ [i \in 1..Len(lexer.tokens_list) |-> lexer.tokens_list[i].type]
                = <<"INT", "IDENTIFIER", "ASSIGN", "INTEGER_LITERAL", "SEMICOLON">>
          /\ lexer.tokens_list[2].value = StrVal(<<"a">>)
          /\ lexer.tokens_list[4].value = [k |-> "int", s |-> <<>>, n |-> 5]

\* a call has returned a list with a keyword, an identifier that begins with
\* that keyword and one that differs from it in case only
C14_Witness ==
    /\ lexpc = "done"
    /\ \E i, j, k \in 1..Len(lexer.tokens_list) :
          /\ lexer.tokens_list[i].type = "IF"
          /\ lexer.tokens_list[j].type = "IDENTIFIER"
          /\ lexer.tokens_list[j].value.s = <<"i", "f", "f">>
          /\ lexer.tokens_list[k].type = "IDENTIFIER"
          /\ lexer.tokens_list[k].value.s = <<"I", "f">>


\* the operators of more than one character
MultiCharOperators ==
    { <<"+", "=">>, <<"-", "=">>, <<"*", "=">>, <<"/", "=">>, <<"%", "=">>,
      <<"+", "+">>, <<"-", "-">>, <<"<", "<">>, <<">", ">">>, <<"=", "=">>,
      <<"!", "=">>, <<"<", "=">>, <<">", "=">>, <<"&", "&">>, <<"|", "|">>,
      <<"-", ">">> }

\* the type of the string rule for the lexeme
OperatorType(lexeme) ==
    StringRules[CHOOSE i \in DOMAIN StringRules : StringRules[i].lexeme = lexeme].type

\* the code at offset p begins with the lexeme
BeginsWith(code, p, lexeme) ==
    p + Len(lexeme) <= Len(code) /\ Slice(code, p, p + Len(lexeme)) = lexeme

\* C16: each of the sixteen operators has a rule, and a token that starts where
\* the input begins with one of them is that operator's token, never the token
\* of the one-character operator that is its prefix
C16_LongestOperator ==
    /\ \A op \in MultiCharOperators : \E i \in DOMAIN StringRules : StringRules[i].lexeme = op
    /\ \A i \in 1..Len(lexer.tokens_list) : \A op \in MultiCharOperators :
          LET t == lexer.tokens_list[i]
          IN  BeginsWith(lexer.lexdata, t.position, op) =>
                 /\ t.type = OperatorType(op)
                 /\ t.value = StrVal(op)
    /\ lexlast.kind \in {"ignore", "error"} =>
          \A op \in MultiCharOperators : ~BeginsWith(lexer.lexdata, lexer.lexpos - 1, op)

\* a call has returned a token for each of the sixteen operators
C16_Witness ==
    /\ lexpc = "done"
    /\ \A op \in MultiCharOperators :
          \E i \in 1..Len(lexer.tokens_list) : lexer.tokens_list[i].value = StrVal(op)


(***************************************************************************)
(* Claims on the parser (SpecParse)                                        *)
(***************************************************************************)
\* the source of the parse call in progress or finished last
ParseSource == pstate.P.lexer.lexdata

\* the tokens tokenize gives for the source on a new CLexer
TokensOf(code) == tokenize(CLexer_init, code).tokens_list

\* C15: parse of the empty source, and of any source that gives no token,
\* returns a Program node with no children, on a new parser and on a used one
C15_EmptyProgram ==
    (pstate.pc = "done" /\ Len(TokensOf(ParseSource)) = 0) =>
        /\ pstate.program.cls = "Program"
        /\ pstate.program.children = <<>>
        /\ pstate.program = Program

\* the second call on a parser, made with the empty source after a call with
\* a source of more than one line, has returned
C15_Witness ==
    /\ pstate.pc = "done" /\ pcalls = 2 /\ ParseSource = <<>>
    /\ pstate.P.lexer.lineno > 1


\* the type of the token at lookahead offset k, "" past the end
TypeAt(P, k) == IF peek(P, k) = NoToken THEN "" ELSE peek(P, k).type

\* opening minus closing parentheses among the tokens at offsets from..to
ParenDepth(P, from, to) ==
    Cardinality({ k \in from..to : TypeAt(P, k) = "LPAREN" })
      - Cardinality({ k \in from..to : TypeAt(P, k) = "RPAREN" })

\* offset j holds the parenthesis that closes the one at offset i
Closes(P, i, j) ==
    /\ TypeAt(P, i) = "LPAREN" /\ TypeAt(P, j) = "RPAREN"
    /\ ParenDepth(P, i, j) = 0
    /\ \A k \in i..(j - 1) : ParenDepth(P, i, k) > 0

\* the shape the claim gives for a function definition at the cursor
FunctionShape(P) ==
    /\ TypeAt(P, 0) \in {"INT", "FLOAT", "DOUBLE", "CHAR", "VOID"}
    /\ \E i \in {1, 2} :
          /\ TypeAt(P, i) = "IDENTIFIER" /\ TypeAt(P, i + 1) = "LPAREN"
          /\ \E j \in (i + 2)..(Len(P.tokens) - P.current_token_index - 1) :
                Closes(P, i + 1, j) /\ TypeAt(P, j + 1) = "LBRACE"

\* C17: at the top level, with a token at the cursor, the position is taken
\* for a function definition only when it has the shape above; a '#' is
\* parsed as a preprocessor directive, a type keyword not taken for a function
\* as a declaration, and any other token is skipped
C17_TopLevelClassification ==
    (pstate.pc = "program" /\ current_token(pstate.P) # NoToken) =>
        /\ ParseKind(pstate) = "function_head" => FunctionShape(pstate.P)
        /\ TypeAt(pstate.P, 0) = "HASH" => ParseKind(pstate) = "program_preprocessor"
        /\ (TypeAt(pstate.P, 0) \in {"INT", "FLOAT", "DOUBLE", "CHAR", "VOID"}
              /\ ParseKind(pstate) # "function_head") =>
                 ParseKind(pstate) = "program_declaration"
        /\ TypeAt(pstate.P, 0) \notin {"HASH", "INT", "FLOAT", "DOUBLE", "CHAR", "VOID"} =>
              /\ ParseKind(pstate) = "program_skip"
              /\ program_skip(pstate).program = pstate.program
              /\ Cursor(program_skip(pstate)) = Cursor(pstate) + 1

\* the parser is at a type keyword that has an IDENTIFIER and '(' after it
\* and is not taken for a function: the parenthesis is never closed
C17_Witness ==
    /\ pstate.pc = "program" /\ ParseKind(pstate) = "program_declaration"
    /\ TypeAt(pstate.P, 1) = "IDENTIFIER" /\ TypeAt(pstate.P, 2) = "LPAREN"
    /\ TypeAt(pstate.P, 3) = "LPAREN"


\* C18: inside a block, an iteration whose statement yields no node leaves
\* the cursor exactly one token past the position the statement started at
C18_FailedStatementCostsOne ==
    [][ (ParseKind(pstate) = "block_iter" /\ pstate' = block_iter(pstate)
           /\ parse_statement(pstate.P).node = None)
        => Cursor(pstate') = Cursor(pstate) + 1 ]_vars


\* the type of the token with index i of the parser's token list, "" outside
TypeOf(P, i) == IF TokAt(P.tokens, i) = NoToken THEN "" ELSE TokAt(P.tokens, i).type

\* opening minus closing braces among the tokens with indices from..to
BraceDepth(P, from, to) ==
    Cardinality({ k \in from..to : TypeOf(P, k) = "LBRACE" })
      - Cardinality({ k \in from..to : TypeOf(P, k) = "RBRACE" })

\* the token with index j is the brace that closes the one with index i
ClosesBrace(P, i, j) ==
    /\ TypeOf(P, i) = "LBRACE" /\ TypeOf(P, j) = "RBRACE"
    /\ BraceDepth(P, i, j) = 0
    /\ \A k \in i..(j - 1) : BraceDepth(P, i, k) > 0

\* the index of the brace that opens the body of the function being parsed:
\* the first '{' from the function's first token on
BodyOpen(S) ==
    CHOOSE i \in S.top..Len(S.P.tokens) :
        /\ TypeOf(S.P, i) = "LBRACE" \/ i = Len(S.P.tokens)
        /\ \A k \in S.top..(i - 1) : TypeOf(S.P, k) # "LBRACE"

\* the Function node parse_function has added last has a Block child
LastFunctionHasBlock(S) ==
    /\ S.program.children # <<>>
    /\ LET f == S.program.children[Len(S.program.children)]
       IN  f.cls = "Function" /\ Len(f.children) = 1 /\ f.children[1].cls = "Block"

\* C19: when the body of a function has balanced braces, parse_block ends
\* with the cursor just after the brace that matches the body's opening brace
\* and gives the function a Block
C19_BlockToMatchingBrace ==
    [][ (ParseKind(pstate) = "block_done" /\ pstate' = block_done(pstate)
           /\ \E j \in 0..Len(pstate.P.tokens) : ClosesBrace(pstate.P, BodyOpen(pstate), j))
        => /\ \E j \in 0..Len(pstate.P.tokens) :
                 ClosesBrace(pstate.P, BodyOpen(pstate), j) /\ Cursor(pstate') = j + 1
           /\ LastFunctionHasBlock(pstate') ]_vars


\* at the cursor: a type keyword, an IDENTIFIER, then ';' or '=' with a ';'
\* somewhere after it
DeclarationForm(P) ==
    /\ TypeAt(P, 0) \in {"INT", "FLOAT", "DOUBLE", "CHAR", "VOID"}
    /\ TypeAt(P, 1) = "IDENTIFIER"
    /\ \/ TypeAt(P, 2) = "SEMICOLON"
       \/ /\ TypeAt(P, 2) = "ASSIGN"
          /\ \E j \in 3..Len(P.tokens) : TypeAt(P, j) = "SEMICOLON"

\* the lookahead offset of the first ';' after the name
FirstSemicolon(P) ==
    CHOOSE j \in 2..Len(P.tokens) :
        TypeAt(P, j) = "SEMICOLON" /\ \A k \in 2..(j - 1) : TypeAt(P, k) # "SEMICOLON"

\* what the claim says of parse_declaration called at the cursor of P
DeclarationResult(P) ==
    LET r == parse_declaration(P)
    IN  /\ r.node # None
        /\ r.node.cls = "Declaration" /\ r.node.children = <<>>
        /\ r.node.attributes = <<Attr("decl_type", StrVal(<<"v","a","r","i","a","b","l","e">>)),
                                 Attr("name", peek(P, 1).value),
                                 Attr("data_type", peek(P, 0).value)>>
        /\ r.P.current_token_index = P.current_token_index + FirstSemicolon(P) + 1
        /\ r.P.tokens = P.tokens

\* C20: for type IDENTIFIER [= initializer] ';' at the cursor, parse_declaration
\* (called by parse_program or by parse_statement in a block) returns a
\* Declaration with decl_type 'variable', the name and the data type and no
\* children, and leaves the cursor just after the first ';' after the name;
\* the caller adds exactly that node
C20_Declaration ==
    [][ /\ (ParseKind(pstate) = "program_declaration" /\ pstate' = program_declaration(pstate)
              /\ DeclarationForm(pstate.P))
           => /\ DeclarationResult(pstate.P)
              /\ Cursor(pstate') = Cursor(pstate) + FirstSemicolon(pstate.P) + 1
              /\ pstate'.program.children
                    = Append(pstate.program.children, parse_declaration(pstate.P).node)
        /\ (ParseKind(pstate) = "block_iter" /\ pstate' = block_iter(pstate)
              /\ DeclarationForm(pstate.P))
           => /\ DeclarationResult(pstate.P)
              /\ Cursor(pstate') = Cursor(pstate) + FirstSemicolon(pstate.P) + 1
              /\ pstate'.statements = Append(pstate.statements, parse_declaration(pstate.P).node)
      ]_vars

\* parse_program has just added the Declaration of "float b = a + 1;": seven
\* tokens from the type keyword to the ';'
C20_Witness ==
    /\ pstate.pc = "program" /\ plast = Iter("program", 7)
    /\ pstate.program.children # <<>>
    /\ LET d == pstate.program.children[Len(pstate.program.children)]
       IN  /\ d.cls = "Declaration" /\ d.children = <<>>
           /\ get_attribute(d, "name") = StrVal(<<"b">>)
    /\ TypeOf(pstate.P, Cursor(pstate) - 1) = "SEMICOLON"


\* the nodes of the tree under node, node included
RECURSIVE TreeNodes(_)
TreeNodes(node) ==
    {node} \cup UNION { TreeNodes(node.children[i]) : i \in DOMAIN node.children }

\* the nodes the parser has built so far
BuiltNodes ==
    TreeNodes(pstate.program)
      \cup UNION { TreeNodes(pstate.statements[i]) : i \in DOMAIN pstate.statements }

ExpressionClasses == {"Identifier", "Literal", "FunctionCall"}

\* C21: every IfStatement node the parser builds has its condition as first
\* child and its then-statement as second child, and a third child at most:
\* it has two or three children, the first one is an expression (the condition
\* is read by parse_simple_expression), and no other child takes its place
C21_IfStatementChildren ==
    \A n \in BuiltNodes :
        n.cls = "IfStatement" =>
            /\ Len(n.children) \in {2, 3}
            /\ n.children[1].cls \in ExpressionClasses


(***************************************************************************)
(* Claims on the generated graph (Spec)                                    *)
(***************************************************************************)
\* the first node of a branch, as the C text of the statement form gives it:
\* the merge node for a branch that is absent or empty, otherwise a node of
\* the type with the name or value mark in its label
MergeBranch == [type |-> "PROCESS", merge |-> TRUE, mark |-> ""]
MarkBranch(type, mark) == [type |-> type, merge |-> FALSE, mark |-> mark]

\* the branches of the statement forms with one if whose body is not in braces
BranchesOf ==
    ("IfE" :> [then |-> MarkBranch("PROCESS", "y"), else |-> MergeBranch]) @@
    ("IfEE" :> [then |-> MarkBranch("PROCESS", "y"), else |-> MarkBranch("PROCESS", "z")]) @@
    ("IfR" :> [then |-> MarkBranch("RETURN", "1"), else |-> MergeBranch]) @@
    ("IfRR" :> [then |-> MarkBranch("RETURN", "1"), else |-> MarkBranch("RETURN", "2")]) @@
    ("IfSE" :> [then |-> MergeBranch, else |-> MarkBranch("PROCESS", "z")])

\* the node is the first node of the branch
IsBranchStart(node, b) ==
    /\ node.node_type = b.type
    /\ IF b.merge THEN node.content = S_merge
       ELSE \E i \in 1..(Len(node.content) - 1) :
               node.content[i] = "=" /\ node.content[i + 1] = b.mark

\* C22: in a generated graph a DECISION node with exactly two successors has
\* the first node of the then-branch as its first successor and the first
\* node of the else-branch, or the merge node when there is no else, as its
\* second successor (sources of one function with one if statement)
C22_DecisionSuccessorOrder ==
    (genpc = "returned" /\ genlast.result.kind = "graph" /\ ~genlast.desc.literal
        /\ IfCount(genlast.desc.body) = 1) =>
        \A k \in DOMAIN genlast.desc.body : \A i \in NodesOfType(LastGraph, "DECISION") :
            (genlast.desc.body[k] \in DOMAIN BranchesOf
                /\ Len(LastGraph.nodes[i].successors) = 2) =>
               /\ IsBranchStart(get_node(LastGraph, LastGraph.nodes[i].successors[1]),
                                BranchesOf[genlast.desc.body[k]].then)
               /\ IsBranchStart(get_node(LastGraph, LastGraph.nodes[i].successors[2]),
                                BranchesOf[genlast.desc.body[k]].else)


\* the number of nodes of class cls in the tree under node and in the trees
\* of a list of nodes
RECURSIVE CountClass(_, _), CountClassIn(_, _)
CountClass(node, cls) ==
    (IF node.cls = cls THEN 1 ELSE 0) + CountClassIn(node.children, cls)
CountClassIn(nodes, cls) ==
    IF nodes = <<>> THEN 0 ELSE CountClass(Head(nodes), cls) + CountClassIn(Tail(nodes), cls)

\* the AST the last call lowered: what the parser returns for its source
LastAST == parse(CParser_init, Render(genlast.desc)).program

\* the number of END nodes the claim gives for an AST
ExpectedEnds(ast) ==
    IF CountClass(ast, "ReturnStatement") >= 1 THEN CountClass(ast, "ReturnStatement") ELSE 1

C25_PreprocessorNode ==
    (genpc = "returned" /\ CountClass(LastAST, "PreprocessorDirective") >= 1) =>
        /\ genlast.result.kind = "graph"
        /\ \E i \in NodesOfType(LastGraph, "PROCESS") :
              /\ LastGraph.nodes[i].content # <<>>
              /\ LastGraph.nodes[i].content[1] = "#"
              /\ LastGraph.nodes[i].predecessors # <<>>


(***************************************************************************)
(* Claims on the graph API (SpecGraph)                                     *)
(***************************************************************************)
\* the list is the old one, or the old one with id appended
SameOrAppended(new, old, id) == new = old \/ new = Append(old, id)

\* h is g with at most the edge from a to b added: the nodes, their ids,
\* types, contents and attributes, the counter, start_node and end_nodes are
\* the same, and only a's successor list and b's predecessor list may differ
OnlyEdgeAdded(g, h, a, b) ==
    /\ Len(h.nodes) = Len(g.nodes)
    /\ h.node_counter = g.node_counter
    /\ h.start_node = g.start_node /\ h.end_nodes = g.end_nodes
    /\ \A i \in DOMAIN g.nodes :
          /\ h.nodes[i].node_id = g.nodes[i].node_id
          /\ h.nodes[i].node_type = g.nodes[i].node_type
          /\ h.nodes[i].content = g.nodes[i].content
          /\ h.nodes[i].attributes = g.nodes[i].attributes
          /\ IF g.nodes[i].node_id = a
             THEN SameOrAppended(h.nodes[i].successors, g.nodes[i].successors, b)
             ELSE h.nodes[i].successors = g.nodes[i].successors
          /\ IF g.nodes[i].node_id = b
             THEN SameOrAppended(h.nodes[i].predecessors, g.nodes[i].predecessors, a)
             ELSE h.nodes[i].predecessors = g.nodes[i].predecessors

\* C26: a connect_nodes call changes only the successor list of the source
\* node and the predecessor list of the target node; the nodes, the counter,
\* start_node, end_nodes and every node's type and content stay as they are;
\* with an id the graph does not hold the call changes nothing; and no step on
\* the graph deletes or retypes a node
C26_ConnectFrame ==
    [][ /\ \A a, b \in NodeIds(cfg) \cup {UnknownId(cfg)} :
              (cfg' = connect_nodes(cfg, a, b) /\ cfgops' = cfgops + 1
                  /\ cfgcreated' = cfgcreated) =>
                 /\ OnlyEdgeAdded(cfg, cfg', a, b)
                 /\ (a = UnknownId(cfg) \/ b = UnknownId(cfg)) => cfg' = cfg
        /\ \A i \in DOMAIN cfg.nodes :
              /\ i \in DOMAIN cfg'.nodes
              /\ cfg'.nodes[i].node_id = cfg.nodes[i].node_id
              /\ cfg'.nodes[i].node_type = cfg.nodes[i].node_type
              /\ cfg'.nodes[i].content = cfg.nodes[i].content
      ]_vars

\* two nodes the client created have been connected: the first has the
\* second as its only successor, the second the first as its only predecessor
C26_Witness ==
    /\ Len(cfg.nodes) = 2 /\ cfgcreated = 2 /\ cfgops = 3
    /\ cfg.nodes[1].successors = <<cfg.nodes[2].node_id>>
    /\ cfg.nodes[1].predecessors = <<>>
    /\ cfg.nodes[2].predecessors = <<cfg.nodes[1].node_id>>
    /\ cfg.nodes[2].successors = <<>>


\* C27: when the position is classified as a function definition, the
\* parse_function call that follows returns a Function node and parse_program
\* appends it: the top-level iteration ends with one more child of the
\* Program, a Function
C27_FunctionAppended ==
    [][ (ParseKind(pstate) \in {"function_head", "function_after_params", "block_done"}
           /\ pstate' = ParseStep(pstate) /\ pstate'.pc = "program")
        => /\ Len(pstate'.program.children) = Len(pstate.program.children) + 1
           /\ pstate'.program.children[Len(pstate'.program.children)].cls = "Function" ]_vars


\* C28: every graph generate_cfg returns is acyclic: its nodes are numbered
\* node_1, node_2, ... in the order of their creation and every edge goes from
\* a node to one created later; there is exactly one START node, it is node_1,
\* it is the graph's start_node and it has no predecessors
C28_Acyclic ==
    (genpc = "returned" /\ genlast.result.kind = "graph") =>
        /\ \A i \in DOMAIN LastGraph.nodes :
              /\ LastGraph.nodes[i].node_id = make_node_id(i)
              /\ \A k \in DOMAIN LastGraph.nodes[i].successors :
                    /\ HasNode(LastGraph, LastGraph.nodes[i].successors[k])
                    /\ NodeIndex(LastGraph, LastGraph.nodes[i].successors[k]) > i
              /\ \A k \in DOMAIN LastGraph.nodes[i].predecessors :
                    /\ HasNode(LastGraph, LastGraph.nodes[i].predecessors[k])
                    /\ NodeIndex(LastGraph, LastGraph.nodes[i].predecessors[k]) < i
        /\ NodesOfType(LastGraph, "START") = {1}
        /\ LastGraph.start_node = make_node_id(1)
        /\ LastGraph.nodes[1].predecessors = <<>>

\* a graph has been returned in which a DECISION node has two successors and
\* a later node has two predecessors
C28_Witness ==
    /\ genpc = "returned" /\ genlast.result.kind = "graph"
    /\ \E i \in NodesOfType(LastGraph, "DECISION") : Len(LastGraph.nodes[i].successors) = 2
    /\ \E i \in DOMAIN LastGraph.nodes : Len(LastGraph.nodes[i].predecessors) = 2
    /\ Len(LastGraph.nodes) >= 7


\* C29: in every graph generate_cfg returns, every node other than START has
\* a predecessor and is reached from START over successor edges
C29_ReachableFromStart ==
    (genpc = "returned" /\ genlast.result.kind = "graph") =>
        /\ \A i \in DOMAIN LastGraph.nodes :
              LastGraph.nodes[i].node_type # "START" => LastGraph.nodes[i].predecessors # <<>>
        /\ NodeIds(LastGraph) \subseteq ReachFrom(LastGraph, LastGraph.start_node)

\* a graph has been returned with a node three edges or more away from START
\* that has two predecessors
C29_Witness ==
    /\ genpc = "returned" /\ genlast.result.kind = "graph"
    /\ \E i \in DOMAIN LastGraph.nodes :
          /\ Len(LastGraph.nodes[i].predecessors) = 2
          /\ LastGraph.nodes[i].node_id \notin ReachIn(LastGraph, {LastGraph.start_node}, 2)
          /\ LastGraph.nodes[i].node_id \in ReachFrom(LastGraph, LastGraph.start_node)

\* C30: in every graph generate_cfg returns, every node without successors is
\* an END node, so every maximal path from START ends in an END node
C30_DeadEndsAreEnd ==
    (genpc = "returned" /\ genlast.result.kind = "graph") =>
        \A i \in DOMAIN LastGraph.nodes :
            LastGraph.nodes[i].successors = <<>> => LastGraph.nodes[i].node_type = "END"
====
